---- MODULE Spec2Model ----
(***************************************************************************)
(* Layout engine of the code-city viewer (src/web/components/CityScene.tsx,*)
(* the shaping variant at lines 2234-2717): squarify, shapeFootprint and   *)
(* generateCityLayout.                                                     *)
(*                                                                         *)
(* JavaScript numbers are modelled as exact rationals <<n, d>> in lowest   *)
(* terms with d >= 0; d = 0 encodes +Infinity (<<1,0>>), -Infinity         *)
(* (<<-1,0>>) and NaN (<<0,0>>), so that x / 0 behaves as in the code.     *)
(* Math.log10 and Math.sqrt, whose values are irrational, are rounded down *)
(* to a fixed precision (see calculateBuildingHeight below).               *)
(***************************************************************************)
EXTENDS Integers, Sequences, FiniteSets, TLC

VARIABLES
    pc,       \* which call is in progress / finished
    items,    \* squarify: the weighted items (sequence of [node, size])
    rect,     \* squarify / generateCityLayout: <<x, z, width, depth>>
    cells,    \* squarify: the returned list
    raw,      \* shapeFootprint: <<width, depth>> argument
    shaped,   \* shapeFootprint: returned [width, depth]
    tree,     \* generateCityLayout: the FileNode tree
    layout,   \* generateCityLayout: the returned CityNode tree
    bytes,          \* calculateBuildingHeight: the sizes of two files
    footprint,      \* applyFootprintHeightScale: <<width, depth>> of both
    heights,        \* the base and the adjusted height of each of the two
    flatBuildings,  \* flattenBuildings: the returned list
    flatDistricts,  \* flattenDistricts: the returned list
    layoutBounds,   \* getLayoutBounds: the returned record
    walk,           \* generateCityLayout step by step: pending calls, row loop
    scene,          \* CityScene: props, state and memoized layout
    server          \* the server of /api/dependencies: cache, clock, requests

heightVars == <<bytes, footprint, heights>>

flattenVars == <<flatBuildings, flatDistricts, layoutBounds>>

stepVars == <<walk, scene, server>>

vars ==
    <<pc, items, rect, cells, raw, shaped, tree, layout, heightVars, flattenVars, stepVars>>

----------------------------------------------------------------------------
(* Bounds of the model *)

MaxItems == 3
MaxWeight == 3
MaxDim == 3
MaxRawTenths == 30
MaxNodes == 4

\* longest side of the rectangle of a district laid out on its own
MaxSide == 6

\* Math.log10 is computed to LogBits binary digits on a fixed point of
\* LogDigits base-1000 digits, Math.sqrt to SqrtDigits base-1000 digits
LogBits == 52
LogDigits == 6
SqrtDigits == 5

\* file sizes for calculateBuildingHeight go up to 10^MaxSizeExponent bytes
MaxSizeExponent == 13

----------------------------------------------------------------------------
(* Numbers *)
(* A number is <<n, d>> with integers n, d below Limit in size, or, when   *)
(* the fraction in lowest terms needs more, <<s, N, D>>: the sign and the  *)
(* numerator and denominator as lists of base-1000 digits, lowest first.   *)

\* F(e) with e computed before F is entered, as JavaScript computes the
\* operand of a statement before the next statement runs
Then(e, F(_)) == CHOOSE r \in {F(v) : v \in {e}} : TRUE

\* F(a, b) with both operands computed first, each once
Both(F(_, _), a, b) == CHOOSE r \in {F(x, y) : x \in {a}, y \in {b}} : TRUE

Abs(i) == IF i < 0 THEN -i ELSE i

\* Euclid's algorithm on <<a, b>>
GcdOf[p \in Nat \X Nat] == IF p[2] = 0 THEN p[1] ELSE GcdOf[<<p[2], p[1] % p[2]>>]

Gcd(a, b) == GcdOf[<<a, b>>]

Sign(i) == IF i > 0 THEN 1 ELSE IF i < 0 THEN -1 ELSE 0

Base == 10 * 10 * 10
Limit == Base * Base * Base

\* digit lists (naturals of any size). The operations take their operands by
\* value, and none nests deeper than the logarithm of the number of its steps.
RECURSIVE BFromInt(_)
BFromInt(n) == IF n = 0 THEN <<>> ELSE <<n % Base>> \o BFromInt(n \div Base)

RECURSIVE BToInt(_)
BToInt(l) == IF l = <<>> THEN 0 ELSE l[1] + Base * BToInt(Tail(l))

Digits == Seq(Nat)

\* the digit at place i, 0 above the list
At(a, i) == IF i <= Len(a) THEN a[i] ELSE 0

\* the highest place of l with a digit other than 0, or 0
BTop(l) ==
    IF l = <<>> \/ l[Len(l)] # 0 THEN Len(l)
    ELSE IF \A i \in 1..Len(l) : l[i] = 0 THEN 0
    ELSE CHOOSE i \in 1..Len(l) : l[i] # 0 /\ \A j \in (i + 1)..Len(l) : l[j] = 0

\* a digit list without its leading zeros
BTrim(l) == SubSeq(l, 1, BTop(l))

\* a digit list without the 0 in its top place
BDropZero(l) == IF l # <<>> /\ l[Len(l)] = 0 THEN SubSeq(l, 1, Len(l) - 1) ELSE l

\* -1, 0 or 1 as a < b, a = b or a > b: the longer list, or the greater
\* digit at the highest place where they differ
BCmpOf[p \in Digits \X Digits] ==
    IF Len(p[1]) < Len(p[2]) THEN -1
    ELSE IF Len(p[1]) > Len(p[2]) THEN 1
    ELSE IF p[1] = p[2] THEN 0
    ELSE LET i == CHOOSE i \in 1..Len(p[1]) :
                      /\ p[1][i] # p[2][i]
                      /\ \A j \in (i + 1)..Len(p[1]) : p[1][j] = p[2][j]
         IN  IF p[1][i] < p[2][i] THEN -1 ELSE 1

BCmp(a, b) == BCmpOf[<<a, b>>]

LongerOf(a, b) == IF Len(a) >= Len(b) THEN Len(a) ELSE Len(b)

\* the carry into place i of the places S, each below 2 * Base - 1: the place
\* below makes one, or passes on the one that a place further down makes
CarryAt(S, i) ==
    IF i = 1 THEN 0
    ELSE IF S[i - 1] # Base - 1 THEN S[i - 1] \div Base
    ELSE IF \E j \in 1..(i - 2) :
                S[j] >= Base /\ \A k \in (j + 1)..(i - 1) : S[k] = Base - 1
    THEN 1 ELSE 0

\* the places S with their carries taken up, the one out of the top dropped
BCarry(S) == [i \in 1..Len(S) |-> (S[i] + CarryAt(S, i)) % Base] \o <<>>

BAdd(a, b) ==
    BDropZero(BCarry([i \in 1..(LongerOf(a, b) + 1) |-> At(a, i) + At(b, i)] \o <<>>))

\* a - b for a >= b: a plus the complement of b plus 1, in the places of a
BSub(a, b) ==
    IF b = <<>> THEN a
    ELSE BTrim(Tail(BCarry(<<Base>> \o [i \in 1..Len(a) |-> a[i] + (Base - 1) - At(b, i)])))

\* a * Base^k
BShiftBy(a, k) == IF a = <<>> \/ k = 0 THEN a ELSE [i \in 1..k |-> 0] \o a

\* a \div Base^k
BDropLow(a, k) == IF Len(a) <= k THEN <<>> ELSE SubSeq(a, k + 1, Len(a))

\* the sum of the products a[i] * b[k + 1 - i] for i from lo to hi, on
\* <<a, b, k, lo, hi>>
BColumnOf[p \in Digits \X Digits \X Nat \X Nat \X Nat] ==
    IF p[4] > p[5] THEN 0
    ELSE IF p[4] = p[5] THEN p[1][p[4]] * p[2][p[3] + 1 - p[4]]
    ELSE BColumnOf[<<p[1], p[2], p[3], p[4], (p[4] + p[5]) \div 2>>]
             + BColumnOf[<<p[1], p[2], p[3], (p[4] + p[5]) \div 2 + 1, p[5]>>]

\* what the products of the digits of a and b add up to at place k
BColumn(a, b, k) ==
    BColumnOf[<<a, b, k, IF k > Len(b) THEN k + 1 - Len(b) ELSE 1,
                         IF k < Len(a) THEN k ELSE Len(a)>>]

\* the columns c as digits: a place takes the low digit of its column and the
\* middle digit of the column below, and then what is above in the column
\* two below
BLowMiddle(c) ==
    [k \in 1..Len(c) |->
        (c[k] % Base) + (IF k > 1 THEN (c[k - 1] \div Base) % Base ELSE 0)] \o <<>>

BWithHigh(t, c) ==
    [k \in 1..Len(t) |->
        t[k] + (IF k > 2 THEN c[k - 2] \div (Base * Base) ELSE 0)] \o <<>>

BFromColumns(c) == BDropZero(BCarry(BWithHigh(BCarry(BLowMiddle(c)), c)))

\* a * b, the product of two digit lists without leading zeros having the
\* places of both together, or one less
BMul(a, b) ==
    IF a = <<>> \/ b = <<>> THEN <<>>
    ELSE BFromColumns([k \in 1..(Len(a) + Len(b)) |-> BColumn(a, b, k)] \o <<>>)

\* the products of the pairs ps
BMulEach(ps) == [i \in 1..Len(ps) |-> BMul(ps[i][1], ps[i][2])] \o <<>>

\* the leading digits of b (two, or its one) as an integer, and the digits of
\* r from the same place up, for r < Base * b
LeadingCount(b) == IF Len(b) >= 2 THEN 2 ELSE 1

LeadingOf(r, b) == BToInt(SubSeq(r, Len(b) - LeadingCount(b) + 1, Len(r)))

\* the quotient digit for the leading digits x of r and y of b: x \div y when
\* these are all the digits of b, and else a digit between x \div (y + 1) and
\* (x + 1) \div y
BDigitsBetween(x, y, exact) ==
    IF exact THEN {x \div y}
    ELSE (x \div (y + 1))..(IF (x + 1) \div y > Base - 1 THEN Base - 1 ELSE (x + 1) \div y)

BDigitRange(r1, b) ==
    IF Len(r1) < Len(b) THEN {0}
    ELSE BDigitsBetween(LeadingOf(r1, b), LeadingOf(b, b), Len(b) <= 2)

\* a * m for a digit m: each place takes the low digit of its product and
\* what the product of the place below has above it
BMulDigit(a, m) ==
    IF m = 0 THEN <<>>
    ELSE BDropZero(BCarry(
             [i \in 1..(Len(a) + 1) |->
                 ((At(a, i) * m) % Base) + (IF i > 1 THEN (a[i - 1] * m) \div Base ELSE 0)]
             \o <<>>))

\* the digits ds, each with its product with b
BProducts(b, ds) == {<<d, BMulDigit(b, d)>> : d \in ds}

\* of the products ps the one of the greatest digit that is no more than r1
BGreatest(r1, ps) ==
    CHOOSE p \in ps :
        BCmp(p[2], r1) <= 0 /\ \A o \in ps : o[1] > p[1] => BCmp(o[2], r1) > 0

\* the remainder and the quotient after the digit p[1], whose product with
\* the divisor is p[2]
BDivTake(q, r1, p) == <<BSub(r1, p[2]), <<p[1]>> \o q>>

BDivWith(b, q, r1) == BDivTake(q, r1, BGreatest(r1, BProducts(b, BDigitRange(r1, b))))

\* one step of long division on <<r, q>>, the remainder and the quotient so
\* far, at place i of a
BDivStep(a, b, s, i) == BDivWith(b, s[2], BDropZero(<<a[i]>> \o s[1]))

\* long division of a by b from <<r, q>> over the places hi down to lo of a,
\* the higher half of them before the lower, on <<a, b, <<r, q>>, hi, lo>>
BDivRun[p \in Digits \X Digits \X (Digits \X Digits) \X Nat \X Nat] ==
    IF p[4] = p[5] THEN BDivStep(p[1], p[2], p[3], p[4])
    ELSE BDivRun[<<p[1], p[2],
                   BDivRun[<<p[1], p[2], p[3], p[4], (p[4] + p[5]) \div 2 + 1>>],
                   (p[4] + p[5]) \div 2, p[5]>>]

\* the quotient has at most one 0 above its digits
BDivResult(s) == <<BDropZero(s[2]), s[1]>>

\* <<quotient, remainder>> of a by b: the digits of a above the length of b
\* are the first remainder
BDivMod(a, b) ==
    IF Len(a) < Len(b) THEN <<<<>>, a>>
    ELSE BDivResult(BDivRun[<<a, b, <<SubSeq(a, Len(a) - Len(b) + 2, Len(a)), <<>>>>,
                              Len(a) - Len(b) + 1, 1>>])

\* one step of Euclid's algorithm on <<a, b>>, on integers once both fit
BGcdStep(s) ==
    IF Len(s[1]) <= 3 /\ Len(s[2]) <= 3
    THEN <<BFromInt(Gcd(BToInt(s[1]), BToInt(s[2]))), <<>>>>
    ELSE <<s[2], BDivMod(s[1], s[2])[2]>>

\* up to n steps of it on <<<<a, b>>, n>>, the first half of them before the
\* second
BGcdRun[p \in (Digits \X Digits) \X Nat] ==
    IF p[1][2] = <<>> THEN p[1]
    ELSE IF p[2] = 1 THEN BGcdStep(p[1])
    ELSE BGcdRun[<<BGcdRun[<<p[1], p[2] \div 2>>], p[2] - p[2] \div 2>>]

\* Euclid's algorithm ends within 15 steps for each base-1000 digit
BGcd(a, b) == BGcdRun[<<<<a, b>>, 15 * (Len(a) + Len(b)) + 2>>][1]

\* the greatest common divisors of the pairs ps
BGcdEach(ps) == [i \in 1..Len(ps) |-> BGcd(ps[i][1], ps[i][2])] \o <<>>

\* a / g for each pair <<a, g>> of ps, g a divisor of a
BQuotEach(ps) ==
    [i \in 1..Len(ps) |->
        IF ps[i][2] = <<1>> THEN ps[i][1] ELSE BDivMod(ps[i][1], ps[i][2])[1]] \o <<>>

IsBig(a) == Len(a) = 3

\* <<sign, numerator digits, denominator digits>> of a finite number
Parts(a) ==
    IF IsBig(a) THEN a ELSE <<Sign(a[1]), BFromInt(Abs(a[1])), BFromInt(a[2])>>

\* the short form when numerator and denominator fit
Fit(s, n, d) ==
    IF Len(n) <= 3 /\ Len(d) <= 3 THEN <<s * BToInt(n), BToInt(d)>> ELSE <<s, n, d>>

FitOf(s, nd) == Fit(s, nd[1], nd[2])

\* s * N / D with N and D divided by their common divisor g
PackBy(s, N, D, g) == FitOf(s, BQuotEach(<<<<N, g>>, <<D, g>>>>))

\* the number s * N / D in lowest terms
Pack(s, N, D) ==
    IF N = <<>> THEN <<0, 1>>
    ELSE IF D = <<1>> THEN Fit(s, N, D)
    ELSE PackBy(s, N, D, BGcd(N, D))

\* x * y stays below Limit, and below half of it
MulOk(x, y) == x = 0 \/ y = 0 \/ Abs(x) <= (Limit - 1) \div Abs(y)

HalfOk(x, y) == x = 0 \/ y = 0 \/ Abs(x) <= ((Limit - 1) \div 2) \div Abs(y)

Reduce(n, d, g) ==
    IF d < 0 THEN <<-(n \div g), -(d \div g)>> ELSE <<n \div g, d \div g>>

\* the number n / d for integers n, d below Limit in size
Rat(n, d) == IF d = 0 THEN <<Sign(n), 0>> ELSE Reduce(n, d, Gcd(Abs(n), Abs(d)))

NaN == <<0, 0>>
Infinity == <<1, 0>>
Zero == <<0, 1>>

IsNaN(a) == ~IsBig(a) /\ a = NaN
IsFinite(a) == IsBig(a) \/ a[2] # 0

Eq(a, b) == IsBig(a) = IsBig(b) /\ a = b /\ ~IsNaN(a)

\* s * (x - y) for x >= y, on <<s, x, y>>
SignedDifference(o) == <<o[1], BSub(o[2], o[3])>>

\* s1 * x + s2 * y as <<sign, digits>>
SignedSum(s1, x, s2, y) ==
    IF s1 = 0 THEN <<s2, y>>
    ELSE IF s2 = 0 THEN <<s1, x>>
    ELSE IF s1 = s2 THEN <<s1, BAdd(x, y)>>
    ELSE SignedDifference(IF BCmp(x, y) >= 0 THEN <<s1, x, y>> ELSE <<s2, y, x>>)

\* sn[1] * sn[2] / D, where only a divisor of g can divide both sn[2] and D
PackSignedBy(sn, D, g) ==
    IF sn[2] = <<>> THEN <<0, 1>> ELSE PackBy(sn[1], sn[2], D, BGcd(sn[2], g))

\* s1 * m[1] + s2 * m[2] over m[3]
BigAddOf(s1, s2, m, g) == PackSignedBy(SignedSum(s1, m[1], s2, m[2]), m[3], g)

\* p + q for r, the denominators of p and q divided by g
BigAddBy(p, q, r, g) ==
    BigAddOf(p[1], q[1], BMulEach(<<<<p[2], r[2]>>, <<q[2], r[1]>>, <<r[1], q[3]>>>>), g)

\* p + q for fractions in lowest terms and g the greatest common divisor of
\* their denominators: the sum over p[3] * q[3] / g has no divisor in common
\* with its denominator but a divisor of g
BigAddParts(p, q, g) == BigAddBy(p, q, BQuotEach(<<<<p[3], g>>, <<q[3], g>>>>), g)

BigAddWith(p, q) == BigAddParts(p, q, BGcd(p[3], q[3]))

BigAdd(a, b) == BigAddWith(Parts(a), Parts(b))

\* a + b in integers when g, the greatest common divisor of the denominators
\* of two short numbers (0 when one of them is not), keeps the sum short
AddBy(a, b, g) ==
    IF /\ g # 0
       /\ HalfOk(a[1], b[2] \div g)
       /\ HalfOk(b[1], a[2] \div g)
       /\ MulOk(a[2] \div g, b[2])
    THEN Rat(a[1] * (b[2] \div g) + b[1] * (a[2] \div g), (a[2] \div g) * b[2])
    ELSE BigAdd(a, b)

Add(a, b) ==
    IF IsNaN(a) \/ IsNaN(b) THEN NaN
    ELSE IF ~IsFinite(a) /\ ~IsFinite(b) THEN (IF a[1] = b[1] THEN a ELSE NaN)
    ELSE IF ~IsFinite(a) THEN a
    ELSE IF ~IsFinite(b) THEN b
    ELSE AddBy(a, b, IF IsBig(a) \/ IsBig(b) THEN 0 ELSE Gcd(a[2], b[2]))

Neg(a) == IF IsBig(a) THEN <<-a[1], a[2], a[3]>> ELSE <<-a[1], a[2]>>

Sub(a, b) == Add(a, Neg(b))

\* s * r[1] * r[2] / (r[3] * r[4])
BigMulOf(s, r) == FitOf(s, BMulEach(<<<<r[1], r[2]>>, <<r[3], r[4]>>>>))

\* p * q for fractions in lowest terms, p[2] and q[3] divided by their
\* greatest common divisor h[1] and q[2] and p[3] by theirs, h[2]
BigMulBy(p, q, h) ==
    BigMulOf(p[1] * q[1],
             BQuotEach(<<<<p[2], h[1]>>, <<q[2], h[2]>>, <<p[3], h[2]>>, <<q[3], h[1]>>>>))

BigMulParts(p, q) ==
    IF p[2] = <<>> \/ q[2] = <<>> THEN <<0, 1>>
    ELSE BigMulBy(p, q, BGcdEach(<<<<p[2], q[3]>>, <<q[2], p[3]>>>>))

BigMul(a, b) == BigMulParts(Parts(a), Parts(b))

\* the greatest common divisor, 1 when both are 0
Gcd1(x, y) == IF x = 0 /\ y = 0 THEN 1 ELSE Gcd(x, y)

\* the common divisors of a[1] with b[2] and of b[1] with a[2] for two short
\* numbers, and <<>> when one of them is not
CrossGcds(a, b) ==
    IF IsBig(a) \/ IsBig(b) THEN <<>>
    ELSE <<Gcd1(Abs(a[1]), b[2]), Gcd1(Abs(b[1]), a[2])>>

\* a * b in integers when the product with a[1], b[2] divided by h[1] and
\* b[1], a[2] by h[2] stays short
MulBy(a, b, h) ==
    IF /\ h # <<>>
       /\ MulOk(a[1] \div h[1], b[1] \div h[2])
       /\ MulOk(a[2] \div h[2], b[2] \div h[1])
    THEN Rat((a[1] \div h[1]) * (b[1] \div h[2]), (a[2] \div h[2]) * (b[2] \div h[1]))
    ELSE BigMul(a, b)

Mul(a, b) ==
    IF IsNaN(a) \/ IsNaN(b) THEN NaN
    ELSE IF ~IsFinite(a) \/ ~IsFinite(b)
    THEN <<Sign(a[1]) * Sign(b[1]), 0>>
    ELSE MulBy(a, b, CrossGcds(a, b))

\* 1 / b, the sign kept in the numerator
Inv(b) ==
    IF IsBig(b) THEN <<b[1], b[3], b[2]>>
    ELSE IF b[1] < 0 THEN <<-b[2], -b[1]>>
    ELSE <<b[2], b[1]>>

\* a / b: finite / 0 is +-Infinity, 0 / 0 and Infinity / Infinity are NaN
Div(a, b) ==
    IF IsNaN(a) \/ IsNaN(b) THEN NaN
    ELSE IF ~IsFinite(a) /\ ~IsFinite(b) THEN NaN
    ELSE Mul(a, Inv(b))

\* n1 / d1 < n2 / d2 for n1, n2 >= 0 and d1, d2 > 0, by integer parts and then
\* the inverted remainders, which never leaves the range of the operands
LtFracOf[p \in Nat \X Nat \X Nat \X Nat] ==
    IF p[1] \div p[2] # p[3] \div p[4] THEN p[1] \div p[2] < p[3] \div p[4]
    ELSE IF p[3] % p[4] = 0 THEN FALSE
    ELSE IF p[1] % p[2] = 0 THEN TRUE
    ELSE LtFracOf[<<p[4], p[3] % p[4], p[2], p[1] % p[2]>>]

\* s1 * x < s2 * y given c, the comparison of x with y
LtSigned(s1, s2, c) ==
    IF s1 # s2 THEN s1 < s2 ELSE IF s1 > 0 THEN c < 0 ELSE c > 0

BigLtParts(p, q) ==
    LtSigned(p[1], q[1], BCmpOf[BMulEach(<<<<p[2], q[3]>>, <<q[2], p[3]>>>>)])

BigLt(a, b) == BigLtParts(Parts(a), Parts(b))

\* a < b, false when either is NaN
Lt(a, b) ==
    /\ ~IsNaN(a)
    /\ ~IsNaN(b)
    /\ IF ~IsFinite(a) /\ ~IsFinite(b) THEN a[1] < b[1]
       ELSE IF ~IsFinite(a) THEN a[1] < 0
       ELSE IF ~IsFinite(b) THEN b[1] > 0
       ELSE IF IsBig(a) \/ IsBig(b) THEN BigLt(a, b)
       ELSE IF a[1] < 0 /\ b[1] >= 0 THEN TRUE
       ELSE IF a[1] >= 0 /\ b[1] < 0 THEN FALSE
       ELSE IF a[1] < 0 THEN LtFracOf[<<-b[1], b[2], -a[1], a[2]>>]
       ELSE LtFracOf[<<a[1], a[2], b[1], b[2]>>]

Le(a, b) == ~IsNaN(a) /\ ~IsNaN(b) /\ ~Lt(b, a)

Gt(a, b) == Lt(b, a)

Ge(a, b) == Le(b, a)

\* Math.max / Math.min of two numbers
Max2(a, b) == IF IsNaN(a) \/ IsNaN(b) THEN NaN ELSE IF Lt(a, b) THEN b ELSE a

Min2(a, b) == IF IsNaN(a) \/ IsNaN(b) THEN NaN ELSE IF Lt(b, a) THEN b ELSE a

----------------------------------------------------------------------------
(* Constants of the layout engine *)

MIN_FOOTPRINT == Rat(12, 10)
MIN_VISUAL_FOOTPRINT == Rat(8, 10)
MAX_FOOTPRINT == Rat(10, 1)
MIN_ASPECT == Rat(6, 10)
MAX_ASPECT == Rat(18, 10)
SAFETY_INSET == Rat(2, 10)
CELL_PADDING == Rat(4, 10)
ROAD_WIDTH == Rat(3, 1)
BUILDING_GAP == Rat(5, 10)
MIN_BLOCK_SIZE == Rat(4, 1)

Two == Rat(2, 1)
One == Rat(1, 1)
Fifth == Rat(2, 10)

----------------------------------------------------------------------------
(* shapeFootprint *)

AspectClampBy(width, depth, aspect) ==
    IF Gt(aspect, MAX_ASPECT)
    THEN [w |-> Min2(width, Mul(depth, MAX_ASPECT)), d |-> depth]
    ELSE IF Lt(aspect, MIN_ASPECT)
    THEN [w |-> width, d |-> Min2(depth, Div(width, MIN_ASPECT))]
    ELSE [w |-> width, d |-> depth]

\* the aspect correction: the longer side is cut, the shorter one kept
AspectClamp(width, depth) == AspectClampBy(width, depth, Div(width, depth))

\* the guard after the aspect correction
Guard(s, maxW, maxD) == [w |-> Min2(s.w, maxW), d |-> Min2(s.d, maxD)]

OverScale(w, d) == Max2(Max2(Div(w, MAX_FOOTPRINT), Div(d, MAX_FOOTPRINT)), One)

Scaled(s, scale) == [w |-> Mul(s.w, scale), d |-> Mul(s.d, scale)]

DownScaleBy(s, overScale) ==
    IF Gt(overScale, One) THEN Scaled(s, Div(One, overScale)) ELSE s

\* uniform downscale when a side exceeds MAX_FOOTPRINT
DownScale(s) == DownScaleBy(s, OverScale(s.w, s.d))

ScaleUpBy(s, usableW, usableD, scaleUp) ==
    [w |-> Min2(usableW, Mul(s.w, scaleUp)), d |-> Min2(usableD, Mul(s.d, scaleUp))]

\* uniform upscale towards MIN_FOOTPRINT inside the usable cell
ScaleUp(s, usableW, usableD) ==
    IF Lt(s.w, MIN_FOOTPRINT) \/ Lt(s.d, MIN_FOOTPRINT)
    THEN ScaleUpBy(s, usableW, usableD,
                   Min2(Min2(Div(usableW, s.w), Div(usableD, s.d)),
                        Div(MIN_FOOTPRINT, Min2(s.w, s.d))))
    ELSE s

\* the side of the raw cell less SAFETY_INSET on both ends
Usable(maxSide) == Max2(Fifth, Sub(maxSide, Mul(SAFETY_INSET, Two)))

\* the additional inset
Inset(v, usable) == Max2(Fifth, Sub(Min2(v, usable), SAFETY_INSET))

\* the last floor of shapeFootprint
VisualFloor(v, usable) == Max2(MIN_VISUAL_FOOTPRINT, Min2(v, usable))

\* the inset and the floor, on both sides
InsetAndFloor(s, usableW, usableD) ==
    [width |-> VisualFloor(Inset(s.w, usableW), usableW),
     depth |-> VisualFloor(Inset(s.d, usableD), usableD)]

\* the statements of shapeFootprint one after the other
ShapeWithin(maxW, maxD, usableW, usableD) ==
    Then(Then(Then(Then(AspectClamp(maxW, maxD),
                        LAMBDA s : Guard(s, maxW, maxD)),
                   DownScale),
              LAMBDA s : ScaleUp(s, usableW, usableD)),
         LAMBDA s : InsetAndFloor(s, usableW, usableD))

shapeFootprint(width, depth) ==
    IF Le(width, Zero) \/ Le(depth, Zero) THEN [width |-> width, depth |-> depth]
    ELSE ShapeWithin(width, depth, Usable(width), Usable(depth))

----------------------------------------------------------------------------
(* squarify *)

RECURSIVE SumSizes(_)
SumSizes(s) == IF s = <<>> THEN 0 ELSE s[1].size + SumSizes(Tail(s))

\* Math.max(rowDim / itemDim, itemDim / rowDim)
Ratio(rowDim, itemDim) == Max2(Div(rowDim, itemDim), Div(itemDim, rowDim))

RECURSIVE WorstLoop(_, _, _, _, _)
WorstLoop(row, k, rowDim, secondaryDim, rowSize) ==
    IF k > Len(row) THEN Zero
    ELSE Max2(Ratio(rowDim, Mul(Rat(row[k].size, rowSize), secondaryDim)),
              WorstLoop(row, k + 1, rowDim, secondaryDim, rowSize))

worstAspectRatio(row, rowDim, secondaryDim, rowSize, totalSize, mainDim) ==
    IF Eq(rowDim, Zero) \/ rowSize = 0 THEN Infinity
    ELSE WorstLoop(row, 1, rowDim, secondaryDim, rowSize)

\* the acceptance test of the row loop for the candidate remaining[n + 1],
\* the row being the first n items of remaining: currentWorst is taken with
\* the row ratio of the grown row and the size of the row as it is
AcceptsWith(remaining, n, rowSize, remainingSize, mainDim, secondaryDim, rowRatio) ==
    Le(worstAspectRatio(SubSeq(remaining, 1, n + 1), rowRatio,
                        secondaryDim, rowSize + remaining[n + 1].size,
                        remainingSize, mainDim),
       worstAspectRatio(SubSeq(remaining, 1, n), rowRatio,
                        secondaryDim, rowSize, remainingSize, mainDim))

AcceptsCandidate(remaining, n, rowSize, remainingSize, mainDim, secondaryDim) ==
    Then(Mul(Rat(rowSize + remaining[n + 1].size, remainingSize), mainDim),
         LAMBDA rowRatio : AcceptsWith(remaining, n, rowSize, remainingSize,
                                       mainDim, secondaryDim, rowRatio))

\* the row loop that stops before its first item
GrowRowOfNone(remaining, n, rowSize, remainingSize, mainDim, secondaryDim) == 0

\* the for loop that grows a row: the number of items of remaining it takes
RECURSIVE GrowRow(_, _, _, _, _, _)
GrowRow(remaining, n, rowSize, remainingSize, mainDim, secondaryDim) ==
    IF n = Len(remaining) THEN n
    ELSE IF n = 0
    THEN Then(<<remaining[1].size, remainingSize>>,
              LAMBDA v : GrowRow(remaining, 1, v[1], v[2], mainDim, secondaryDim))
    ELSE IF AcceptsCandidate(remaining, n, rowSize, remainingSize, mainDim, secondaryDim)
    THEN Then(rowSize + remaining[n + 1].size,
              LAMBDA newRowSize : GrowRow(remaining, n + 1, newRowSize,
                                          remainingSize, mainDim, secondaryDim))
    ELSE n

Cell(item, x, z, w, d) ==
    [node |-> item.node, size |-> item.size, x |-> x, z |-> z, w |-> w, d |-> d]

\* LayRow with the offset never advanced: the items of a row pile up
RECURSIVE LayRowOffsetKept(_, _, _, _, _, _, _, _, _)
LayRowOffsetKept(row, k, offset, rowDim, rowSize, secondaryDim, isHorizontal, currentX, currentZ) ==
    IF k > Len(row) THEN <<>>
    ELSE <<IF isHorizontal
           THEN Cell(row[k], currentX, Add(currentZ, offset), rowDim,
                     Mul(Rat(row[k].size, rowSize), secondaryDim))
           ELSE Cell(row[k], Add(currentX, offset), currentZ,
                     Mul(Rat(row[k].size, rowSize), secondaryDim), rowDim)>>
         \o LayRowOffsetKept(row, k + 1, offset, rowDim, rowSize,
                             secondaryDim, isHorizontal, currentX, currentZ)

\* the result pushed for an item of a row
LayItem(item, offset, rowDim, itemDim, isHorizontal, currentX, currentZ) ==
    IF isHorizontal
    THEN Cell(item, currentX, Add(currentZ, offset), rowDim, itemDim)
    ELSE Cell(item, Add(currentX, offset), currentZ, itemDim, rowDim)

\* the loop that lays one row out, from item k on, offset being the running sum
RECURSIVE LayRow(_, _, _, _, _, _, _, _, _)
RECURSIVE LayRowItem(_, _, _, _, _, _, _, _, _, _)
LayRow(row, k, offset, rowDim, rowSize, secondaryDim, isHorizontal, currentX, currentZ) ==
    IF k > Len(row) THEN <<>>
    ELSE Then(Mul(Rat(row[k].size, rowSize), secondaryDim),
              LAMBDA itemDim : LayRowItem(row, k, offset, rowDim, rowSize, secondaryDim,
                                          isHorizontal, currentX, currentZ, itemDim))

LayRowItem(row, k, offset, rowDim, rowSize, secondaryDim, isHorizontal, currentX, currentZ, itemDim) ==
    <<LayItem(row[k], offset, rowDim, itemDim, isHorizontal, currentX, currentZ)>>
    \o Then(Add(offset, itemDim),
            LAMBDA next : LayRow(row, k + 1, next, rowDim, rowSize,
                                 secondaryDim, isHorizontal, currentX, currentZ))

\* the thickness of a closed row
RowDim(rowSize, remainingSize, mainDim) == Mul(Rat(rowSize, remainingSize), mainDim)

\* the while loop over the remaining items: a row of n items is grown, laid
\* out with thickness rowDim, and the loop goes on behind it
RECURSIVE SquarifyLoop(_, _, _, _, _, _)
RECURSIVE SquarifyRow(_, _, _, _, _, _, _)
RECURSIVE SquarifyRest(_, _, _, _, _, _, _, _)
SquarifyLoop(remaining, currentX, currentZ, isHorizontal, mainDim, secondaryDim) ==
    IF Len(remaining) = 0 THEN <<>>
    ELSE Then(GrowRow(remaining, 0, 0, SumSizes(remaining), mainDim, secondaryDim),
              LAMBDA n : SquarifyRow(remaining, currentX, currentZ, isHorizontal,
                                     mainDim, secondaryDim, n))

SquarifyRow(remaining, currentX, currentZ, isHorizontal, mainDim, secondaryDim, n) ==
    Then(RowDim(SumSizes(SubSeq(remaining, 1, n)), SumSizes(remaining), mainDim),
         LAMBDA rowDim : SquarifyRest(remaining, currentX, currentZ, isHorizontal,
                                      mainDim, secondaryDim, n, rowDim))

SquarifyRest(remaining, currentX, currentZ, isHorizontal, mainDim, secondaryDim, n, rowDim) ==
    LayRow(SubSeq(remaining, 1, n), 1, Zero, rowDim, SumSizes(SubSeq(remaining, 1, n)),
           secondaryDim, isHorizontal, currentX, currentZ)
    \o Then(<<SubSeq(remaining, n + 1, Len(remaining)),
              IF isHorizontal THEN Add(currentX, rowDim) ELSE currentX,
              IF isHorizontal THEN currentZ ELSE Add(currentZ, rowDim)>>,
            LAMBDA next : SquarifyLoop(next[1], next[2], next[3],
                                       isHorizontal, mainDim, secondaryDim))

SquarifyAlong(its, x, z, width, depth, isHorizontal) ==
    Then(<<its, x, z, isHorizontal,
           IF isHorizontal THEN width ELSE depth,
           IF isHorizontal THEN depth ELSE width>>,
         LAMBDA v : SquarifyLoop(v[1], v[2], v[3], v[4], v[5], v[6]))

\* the items in descending order of size, as the textbook algorithm sorts them
RECURSIVE InsertBySize(_, _)
InsertBySize(item, sorted) ==
    IF sorted = <<>> THEN <<item>>
    ELSE IF item.size > sorted[1].size THEN <<item>> \o sorted
    ELSE <<sorted[1]>> \o InsertBySize(item, Tail(sorted))

RECURSIVE SortBySizeDescending(_)
SortBySizeDescending(its) ==
    IF its = <<>> THEN <<>>
    ELSE InsertBySize(its[1], SortBySizeDescending(Tail(its)))

\* squarify with the items sorted by descending size before the rows are grown
squarifySorted(its, x, z, width, depth) ==
    IF Len(its) = 0 THEN <<>>
    ELSE IF Len(its) = 1 THEN <<Cell(its[1], x, z, width, depth)>>
    ELSE IF SumSizes(its) = 0 THEN <<>>
    ELSE SquarifyAlong(SortBySizeDescending(its), x, z, width, depth, Ge(width, depth))

\* squarify with the test of totalSize before the return for a single item
squarifyTotalFirst(its, x, z, width, depth) ==
    IF Len(its) = 0 THEN <<>>
    ELSE IF SumSizes(its) = 0 THEN <<>>
    ELSE IF Len(its) = 1 THEN <<Cell(its[1], x, z, width, depth)>>
    ELSE SquarifyAlong(its, x, z, width, depth, Ge(width, depth))

squarify(its, x, z, width, depth) ==
    IF Len(its) = 0 THEN <<>>
    ELSE IF Len(its) = 1 THEN <<Cell(its[1], x, z, width, depth)>>
    ELSE IF SumSizes(its) = 0 THEN <<>>
    ELSE SquarifyAlong(its, x, z, width, depth, Ge(width, depth))

----------------------------------------------------------------------------
(* calculateBuildingHeight and applyFootprintHeightScale                   *)
(* The logarithm and the square root are irrational. Log10 returns the     *)
(* integer part of Math.log10 and LogBits binary digits of its fraction,   *)
(* Sqrt returns Math.sqrt to SqrtDigits base-1000 digits below the point,  *)
(* and the exact root of the square of a fraction. Both round down, by     *)
(* less than 10^-15, and are monotone.                                     *)

BSquare(a) == BMul(a, a)

\* b^e by squaring
RECURSIVE BPow(_, _)
BPow(b, e) ==
    IF e = 0 THEN <<1>>
    ELSE IF e % 2 = 0 THEN BSquare(BPow(b, e \div 2))
    ELSE BMul(BPow(b, e - 1), b)

\* the number of decimal digits of a digit list (a natural >= 1)
DecimalDigits(d) == IF d >= 100 THEN 3 ELSE IF d >= 10 THEN 2 ELSE 1

BDecimalDigits(l) == 3 * (Len(l) - 1) + DecimalDigits(l[Len(l)])

\* 10^c as a digit list
BPowerOfTen(c) ==
    [i \in 1..(c \div 3) |-> 0] \o <<IF c % 3 = 0 THEN 1 ELSE IF c % 3 = 1 THEN 10 ELSE 100>>

\* 10^k as a number
PowerOfTen(k) == Fit(1, BPowerOfTen(k), <<1>>)

\* 1 KB and 1 MB in bytes
Kilobyte == Rat(1024, 1)
Megabyte == Rat(1048576, 1)

\* file sizes in bytes; 0 stands for a missing or zero size
FileSizes == {0, 1, 1000}

ScenarioSizes == {0, 100, 1024}

\* 10^12 bytes, below the size whose height is cut at 80
Terabyte == PowerOfTen(12)

\* file sizes in bytes, from 0 (or missing) to 5 * 10^MaxSizeExponent, with
\* two pairs of sizes one byte apart
HeightSizes ==
    {Zero, Kilobyte, Add(Kilobyte, One), Megabyte, Add(Terabyte, One)}
        \cup {Fit(1, BMul(BPowerOfTen(k), <<m>>), <<1>>) : k \in 0..MaxSizeExponent, m \in {1, 5}}

\* the largest k with 10^k * DP <= NP, which is c or c - 1 for c the
\* difference of the digit counts
Log10Digits(NP, DP, c) ==
    IF BCmp(BMul(BPowerOfTen(c), DP), NP) <= 0 THEN c ELSE c - 1

\* the integer part of log10(NP / DP) for NP >= DP
Log10Of(NP, DP) == Log10Digits(NP, DP, BDecimalDigits(NP) - BDecimalDigits(DP))

\* 10 on the fixed point
LogTen == BShiftBy(<<10>>, LogDigits)

\* y * y on the fixed point, rounded down
LogSquare(y) == BDropLow(BMul(y, y), LogDigits)

\* one binary digit on <<y, f>>, y in [1, 10) on the fixed point and f the
\* digits found: y is squared, and a square y2 of 10 or more gives the digit 1
\* after f2, the digits found with a 0 after them, and is divided by 10
LogDigit(f2, y2) ==
    IF BCmp(y2, LogTen) >= 0
    THEN <<BDivMod(y2, <<10>>)[1], BAdd(f2, <<1>>)>>
    ELSE <<y2, f2>>

LogStep(p) == LogDigit(BAdd(p[2], p[2]), LogSquare(p[1]))

\* n binary digits more on <<<<y, f>>, n>>, the first half of them before the
\* second
LogRun[p \in (Digits \X Digits) \X Nat] ==
    IF p[2] = 1 THEN LogStep(p[1])
    ELSE LogRun[<<LogRun[<<p[1], p[2] \div 2>>], p[2] - p[2] \div 2>>]

\* the first LogBits binary digits of log10(y), as a natural
LogFraction(y) == LogRun[<<<<y, <<>>>>, LogBits>>][2]

\* N / (D * 10^c) on the fixed point
LogMantissa(N, D, c) == BDivMod(BShiftBy(N, LogDigits), BMul(D, BPowerOfTen(c)))[1]

LogDenominator == BPow(<<2>>, LogBits)

Log10With(N, D, c) ==
    Add(Rat(c, 1), Pack(1, LogFraction(LogMantissa(N, D, c)), LogDenominator))

Log10Parts(p) == Log10With(p[2], p[3], Log10Of(p[2], p[3]))

\* the arguments calculateBuildingHeight has for Math.log10 on the sizes above
Log10Arguments ==
    {Add(size, Rat(10, 1)) :
        size \in HeightSizes \cup {Rat(n, 1) : n \in FileSizes \cup ScenarioSizes}}

\* their logarithms, computed once
Log10Known == {<<a, Log10Parts(Parts(a))>> : a \in Log10Arguments}

\* Math.log10(a) for a >= 1, rounded down
Log10From(a, known) ==
    IF known = {} THEN Log10Parts(Parts(a)) ELSE (CHOOSE p \in known : TRUE)[2]

Log10(a) == Log10From(a, {p \in Log10Known : p[1] = a})

\* the root of n rounded down, by Newton's iteration on <<n, x>> from an x
\* that is no less than the root
ISqrtOf[p \in Nat \X Nat] ==
    IF (p[2] + p[1] \div p[2]) \div 2 >= p[2] THEN p[2]
    ELSE ISqrtOf[<<p[1], (p[2] + p[1] \div p[2]) \div 2>>]

\* a power of 10 above the root of n < Limit
ISqrtAbove(n) ==
    IF n < 100 THEN 10
    ELSE IF n < 100 * 100 THEN 100
    ELSE IF n < Base * Base THEN Base
    ELSE IF n < 100 * Base * Base THEN 10 * Base
    ELSE 100 * Base

ISqrt(n) == IF n = 0 THEN 0 ELSE ISqrtOf[<<n, ISqrtAbove(n)>>]

\* the leading digits of T whose number is odd or even as the length of T is
\* (three, or two), so that an even number of digits stays below them
RootLeading(T) == IF Len(T) % 2 = 1 THEN 3 ELSE 2

\* a digit list no less than the root of T, for T of four digits or more
BRootAbove(T) ==
    BShiftBy(BFromInt(ISqrt(BToInt(SubSeq(T, Len(T) - RootLeading(T) + 1, Len(T)))) + 1),
             (Len(T) - RootLeading(T)) \div 2)

\* one step of Newton's iteration for the root of T on <<x, done>>: the mean
\* y of x and T \div x, until it is no less than x
BRootNext(x, y) == IF BCmp(y, x) >= 0 THEN <<x, <<1>>>> ELSE <<y, <<>>>>

\* half of x + T \div x, for the <<quotient, remainder>> dm of T by x
BRootMean(x, dm) == BDivMod(BAdd(x, dm[1]), <<2>>)[1]

\* a division: of T by x on <<T, x>>, and of the sum for the mean by 2
BRootStep(T, s) ==
    IF s[2] # <<>> THEN s ELSE BRootNext(s[1], BRootMean(s[1], BDivMod(T, s[1])))

\* n steps on <<T, <<x, done>>, n>>, the first half of them before the second
BRootRun[p \in Digits \X (Digits \X Digits) \X Nat] ==
    IF p[2][2] # <<>> THEN p[2]
    ELSE IF p[3] = 1 THEN BRootStep(p[1], p[2])
    ELSE BRootRun[<<p[1], BRootRun[<<p[1], p[2], p[3] \div 2>>], p[3] - p[3] \div 2>>]

\* from a start within a thirtieth of the root the iteration is there in
\* fewer steps than RootSteps for any T of less than 10^100
RootSteps == 16

\* the root of T rounded down
BRoot(T) ==
    IF Len(T) <= 3 THEN BFromInt(ISqrt(BToInt(T)))
    ELSE BRootRun[<<T, <<BRootAbove(T), <<>>>>, RootSteps>>][1]

\* the roots of the digit lists ts
BRoots(ts) == [i \in 1..Len(ts) |-> BRoot(ts[i])] \o <<>>

SqrtDenominator == BShiftBy(<<1>>, SqrtDigits)

\* the root of N / D for r, the roots (rounded down) of N, of D and of
\* N / D on the fixed point squared: exact when N and D are squares, else to
\* SqrtDigits digits
SqrtOf(N, D, r) ==
    IF BMulEach(<<<<r[1], r[1]>>, <<r[2], r[2]>>>>) = <<N, D>> THEN Fit(1, r[1], r[2])
    ELSE Pack(1, r[3], SqrtDenominator)

SqrtParts(p) ==
    IF p[2] = <<>> THEN Zero
    ELSE SqrtOf(p[2], p[3],
                BRoots(<<p[2], p[3], BDivMod(BShiftBy(p[2], 2 * SqrtDigits), p[3])[1]>>))

\* Math.sqrt(a) for a >= 0, rounded down
Sqrt(a) == SqrtParts(Parts(a))

\* calculateBuildingHeight with a missing size taken as 100 bytes, as the
\* size field of the node is (item.node.size || 100)
calculateBuildingHeightOfFlooredSize(sizeInBytes) ==
    Max2(One,
         Min2(Add(Mul(Sub(Log10(Add(IF Eq(sizeInBytes, Zero) THEN Rat(100, 1)
                                    ELSE sizeInBytes,
                                    Rat(10, 1))),
                          One),
                      Rat(7, 1)),
                  Two),
              Rat(80, 1)))

\* calculateBuildingHeight without the Math.min(height, 80)
calculateBuildingHeightUncapped(sizeInBytes) ==
    IF Eq(sizeInBytes, Zero) THEN One
    ELSE Max2(One, Add(Mul(Sub(Log10(Add(sizeInBytes, Rat(10, 1))), One), Rat(7, 1)), Two))

calculateBuildingHeight(sizeInBytes) ==
    IF Eq(sizeInBytes, Zero) THEN One
    ELSE Max2(One,
              Min2(Add(Mul(Sub(Log10(Add(sizeInBytes, Rat(10, 1))), One), Rat(7, 1)), Two),
                   Rat(80, 1)))

applyFootprintHeightScale(height, width, depth) ==
    Mul(height,
        Min2(One, Max2(Rat(25, 100),
                       Div(Sqrt(Max2(Mul(width, depth), Rat(1, 10000))), Rat(3, 1)))))

----------------------------------------------------------------------------
(* generateCityLayout *)

RECURSIVE SumNodeSizes(_)
RECURSIVE calculateNodeSize(_)
\* calculateNodeSize without the floor of a file: node.size instead of node.size || 100
calculateNodeSizeUnfloored(node) ==
    IF node.type = "file" THEN node.size
    ELSE IF Len(node.children) = 0 THEN 100
    ELSE SumNodeSizes(node.children)

\* calculateNodeSize without the 100 of a directory that has no children
calculateNodeSizeOfChildren(node) ==
    IF node.type = "file" THEN (IF node.size # 0 THEN node.size ELSE 100)
    ELSE SumNodeSizes(node.children)

calculateNodeSize(node) ==
    IF node.type = "file" THEN (IF node.size # 0 THEN node.size ELSE 100)
    ELSE IF Len(node.children) = 0 THEN 100
    ELSE SumNodeSizes(node.children)

SumNodeSizes(s) ==
    IF s = <<>> THEN 0 ELSE calculateNodeSize(s[1]) + SumNodeSizes(Tail(s))

IsFile(c) == c.type = "file"

IsDirectory(c) == c.type = "directory"

\* the share of depth_z without the bound of 0.4
FileAreaRatioUnbounded(nFiles, nDirs) ==
    IF nFiles > 0 THEN Rat(nFiles, nFiles + nDirs * 3) ELSE Zero

\* the share of depth_z given to the files of a directory
FileAreaRatio(nFiles, nDirs) ==
    IF nFiles > 0 THEN Min2(Rat(4, 10), Rat(nFiles, nFiles + nDirs * 3)) ELSE Zero

DirAreaDepth(depth_z, nFiles, nDirs) ==
    Sub(Sub(depth_z, Mul(depth_z, FileAreaRatio(nFiles, nDirs))),
        IF nFiles > 0 /\ nDirs > 0 THEN ROAD_WIDTH ELSE Zero)

\* the rectangle handed to squarify for the files: <<x, z, width, depth>>
FileArea(x, z, width, depth_z, nFiles, nDirs) ==
    <<Add(x, BUILDING_GAP),
      Add(Add(z, DirAreaDepth(depth_z, nFiles, nDirs)), ROAD_WIDTH),
      Sub(width, Mul(BUILDING_GAP, Two)),
      Max2(Sub(Mul(depth_z, FileAreaRatio(nFiles, nDirs)), Mul(BUILDING_GAP, Two)), One)>>

\* the cell of a building after the gap: Math.max(item.w - gap * 2, 0.2)
RawSide(side) == Max2(Sub(side, Mul(BUILDING_GAP, Two)), Fifth)

\* FinalSide without the floor at MIN_VISUAL_FOOTPRINT
FinalSideUnfloored(side, dynamicPadding) == Sub(side, Mul(dynamicPadding, Two))

\* the final side of a building: shaped side less the dynamic padding, floored
FinalSide(side, dynamicPadding) ==
    Max2(MIN_VISUAL_FOOTPRINT, Sub(side, Mul(dynamicPadding, Two)))

DynamicPadding(s) ==
    Min2(Min2(CELL_PADDING, Mul(s.width, Rat(25, 100))), Mul(s.depth, Rat(25, 100)))

Margin(rawSide, finalSide) == Max2(Zero, Div(Sub(rawSide, finalSide), Two))

\* the CityNode pushed on buildings, given the final sides
BuildingAt(item, nodeDepth, rawW, rawD, finalW, finalD) ==
    [name |-> item.node.name,
     path |-> item.node.path,
     type |-> "file",
     size |-> IF item.node.size # 0 THEN item.node.size ELSE 100,
     depth |-> nodeDepth + 1,
     x |-> Add(Add(item.x, BUILDING_GAP), Margin(rawW, finalW)),
     z |-> Add(Add(item.z, BUILDING_GAP), Margin(rawD, finalD)),
     width |-> finalW,
     depth_z |-> finalD,
     height |-> applyFootprintHeightScale(
                    calculateBuildingHeight(Rat(item.node.size, 1)), finalW, finalD)]

BuildingPadded(item, nodeDepth, rawW, rawD, s, dynamicPadding) ==
    Then(<<FinalSide(s.width, dynamicPadding), FinalSide(s.depth, dynamicPadding)>>,
         LAMBDA final : BuildingAt(item, nodeDepth, rawW, rawD, final[1], final[2]))

BuildingShaped(item, nodeDepth, rawW, rawD, s) ==
    BuildingPadded(item, nodeDepth, rawW, rawD, s, DynamicPadding(s))

BuildingIn(item, nodeDepth, rawW, rawD) ==
    Then(shapeFootprint(rawW, rawD),
         LAMBDA s : BuildingShaped(item, nodeDepth, rawW, rawD, s))

\* the CityNode pushed on buildings for one cell of the file layout
Building(item, nodeDepth) ==
    BuildingIn(item, nodeDepth, RawSide(item.w), RawSide(item.d))

FileItems(files) ==
    [i \in 1..Len(files) |-> [node |-> files[i], size |-> calculateNodeSize(files[i])]]

\* Math.max(calculateNodeSize(d), MIN_BLOCK_SIZE * MIN_BLOCK_SIZE)
DirItemSize(n) == IF n > 16 THEN n ELSE 16

DirItems(directories) ==
    [i \in 1..Len(directories) |->
        [node |-> directories[i], size |-> DirItemSize(calculateNodeSize(directories[i]))]]

SquarifyIn(its, area) == squarify(its, area[1], area[2], area[3], area[4])

\* the cells of the files of a directory laid out in <<x, z, width, depth_z>>
FileLayout(root, x, z, width, depth_z) ==
    IF Len(SelectSeq(root.children, IsFile)) > 0
    THEN Then(FileArea(x, z, width, depth_z,
                       Len(SelectSeq(root.children, IsFile)),
                       Len(SelectSeq(root.children, IsDirectory))),
              LAMBDA area : SquarifyIn(FileItems(SelectSeq(root.children, IsFile)), area))
    ELSE <<>>

\* the cells of its sub-directories
DirLayout(root, x, z, width, depth_z) ==
    IF Len(SelectSeq(root.children, IsDirectory)) > 0
    THEN squarify(DirItems(SelectSeq(root.children, IsDirectory)), x, z, width,
                  DirAreaDepth(depth_z,
                               Len(SelectSeq(root.children, IsFile)),
                               Len(SelectSeq(root.children, IsDirectory))))
    ELSE <<>>

\* the inset of a district inside its cell
InnerOrigin(v) == Add(v, Div(ROAD_WIDTH, Two))

InnerSide(side) == Max2(Sub(side, ROAD_WIDTH), MIN_BLOCK_SIZE)

RECURSIVE generateCityLayout(_, _, _, _, _, _)
RECURSIVE DirectoryNode(_, _, _, _, _, _, _, _)
generateCityLayout(root, x, z, width, depth_z, nodeDepth) ==
    IF root.type = "file"
    THEN [name |-> root.name,
          path |-> root.path,
          type |-> "file",
          size |-> IF root.size # 0 THEN root.size ELSE 100,
          depth |-> nodeDepth,
          x |-> x,
          z |-> z,
          width |-> Max2(Sub(width, Mul(BUILDING_GAP, Two)), Rat(5, 10)),
          depth_z |-> Max2(Sub(depth_z, Mul(BUILDING_GAP, Two)), Rat(5, 10)),
          height |-> calculateBuildingHeight(Rat(root.size, 1))]
    ELSE DirectoryNode(root, x, z, width, depth_z, nodeDepth,
                       FileLayout(root, x, z, width, depth_z),
                       DirLayout(root, x, z, width, depth_z))

\* the CityNode of a directory, given the cells of its files and sub-directories
DirectoryNode(root, x, z, width, depth_z, nodeDepth, fileLayout, dirLayout) ==
    [name |-> root.name,
     path |-> root.path,
     type |-> "directory",
     size |-> calculateNodeSize(root),
     depth |-> nodeDepth,
     x |-> x,
     z |-> z,
     width |-> width,
     depth_z |-> depth_z,
     height |-> Zero,
     children |-> [i \in 1..Len(dirLayout) |->
                      generateCityLayout(dirLayout[i].node,
                                         InnerOrigin(dirLayout[i].x),
                                         InnerOrigin(dirLayout[i].z),
                                         InnerSide(dirLayout[i].w),
                                         InnerSide(dirLayout[i].d),
                                         nodeDepth + 1)],
     buildings |-> [i \in 1..Len(fileLayout) |-> Building(fileLayout[i], nodeDepth)]]

----------------------------------------------------------------------------
(* flattenBuildings, flattenDistricts and getLayoutBounds *)

RECURSIVE flattenBuildingsChildrenFirst(_)
RECURSIVE ChildrenFirstFrom(_, _)
\* flattenBuildings with the buildings of the sub-directories pushed first
flattenBuildingsChildrenFirst(node) ==
    IF node.type = "file" THEN <<node>>
    ELSE ChildrenFirstFrom(node.children, 1) \o node.buildings

ChildrenFirstFrom(children, k) ==
    IF k > Len(children) THEN <<>>
    ELSE flattenBuildingsChildrenFirst(children[k]) \o ChildrenFirstFrom(children, k + 1)

RECURSIVE flattenBuildings(_)
RECURSIVE BuildingsFrom(_, _)
flattenBuildings(node) ==
    IF node.type = "file" THEN <<node>>
    ELSE node.buildings \o BuildingsFrom(node.children, 1)

\* the loop over node.children, from the k-th child on
BuildingsFrom(children, k) ==
    IF k > Len(children) THEN <<>>
    ELSE flattenBuildings(children[k]) \o BuildingsFrom(children, k + 1)

RECURSIVE flattenDistrictsNodeLast(_)
RECURSIVE NodeLastFrom(_, _)
\* flattenDistricts with the node pushed after its children
flattenDistrictsNodeLast(node) ==
    IF node.type = "directory" THEN Append(NodeLastFrom(node.children, 1), node)
    ELSE <<>>

NodeLastFrom(children, k) ==
    IF k > Len(children) THEN <<>>
    ELSE flattenDistrictsNodeLast(children[k]) \o NodeLastFrom(children, k + 1)

RECURSIVE flattenDistricts(_)
RECURSIVE DistrictsFrom(_, _)
flattenDistricts(node) ==
    IF node.type = "directory" THEN <<node>> \o DistrictsFrom(node.children, 1)
    ELSE <<>>

\* the loop over node.children, from the k-th child on
DistrictsFrom(children, k) ==
    IF k > Len(children) THEN <<>>
    ELSE flattenDistricts(children[k]) \o DistrictsFrom(children, k + 1)

\* minX, maxX, minZ, maxZ and maxHeight before the loops
BoundsStart ==
    [minX |-> Infinity, maxX |-> Neg(Infinity),
     minZ |-> Infinity, maxZ |-> Neg(Infinity), maxHeight |-> Zero]

\* one round of the loop over the buildings
ScanBuilding(acc, b) ==
    [minX |-> Min2(acc.minX, b.x),
     maxX |-> Max2(acc.maxX, Add(b.x, b.width)),
     minZ |-> Min2(acc.minZ, b.z),
     maxZ |-> Max2(acc.maxZ, Add(b.z, b.depth_z)),
     maxHeight |-> Max2(acc.maxHeight, b.height)]

\* one round of the loop over the districts
ScanDistrict(acc, d) ==
    [minX |-> Min2(acc.minX, d.x),
     maxX |-> Max2(acc.maxX, Add(d.x, d.width)),
     minZ |-> Min2(acc.minZ, d.z),
     maxZ |-> Max2(acc.maxZ, Add(d.z, d.depth_z)),
     maxHeight |-> acc.maxHeight]

RECURSIVE ScanBuildings(_, _, _)
ScanBuildings(acc, buildings, k) ==
    IF k > Len(buildings) THEN acc
    ELSE ScanBuildings(ScanBuilding(acc, buildings[k]), buildings, k + 1)

RECURSIVE ScanDistricts(_, _, _)
ScanDistricts(acc, districts, k) ==
    IF k > Len(districts) THEN acc
    ELSE ScanDistricts(ScanDistrict(acc, districts[k]), districts, k + 1)

\* getLayoutBounds without the loop over the districts
getLayoutBoundsOfBuildings(node) ==
    ScanBuildings(BoundsStart, flattenBuildings(node), 1)

getLayoutBounds(node) ==
    ScanDistricts(ScanBuildings(BoundsStart, flattenBuildings(node), 1),
                  flattenDistricts(node), 1)

----------------------------------------------------------------------------
(* Inputs *)

Weights == 1..MaxWeight

Origins == {<<0, 0>>, <<3, 5>>}

RECURSIVE SeqsUpTo(_, _)
SeqsUpTo(S, n) ==
    IF n = 0 THEN {<<>>}
    ELSE LET shorter == SeqsUpTo(S, n - 1)
         IN  shorter \cup {Append(s, e) : s \in {t \in shorter : Len(t) = n - 1}, e \in S}

ItemLists ==
    {[i \in 1..Len(ws) |-> [node |-> i, size |-> ws[i]]] :
        ws \in SeqsUpTo(Weights, MaxItems) \ {<<>>}}

\* item lists whose weights may be 0
AnyWeights == 0..MaxWeight

AnyWeightLists ==
    {[i \in 1..Len(ws) |-> [node |-> i, size |-> ws[i]]] :
        ws \in SeqsUpTo(AnyWeights, MaxItems) \ {<<>>}}

Rects ==
    {<<Rat(o[1], 1), Rat(o[2], 1), Rat(w, 1), Rat(d, 1)>> :
        o \in Origins, w \in 1..MaxDim, d \in 1..MaxDim}

RawCells == {<<Rat(i, 10), Rat(j, 10)>> : i \in 1..MaxRawTenths, j \in 1..MaxRawTenths}

Leaf(size) == [type |-> "file", size |-> size, children |-> <<>>]

Dir(children) == [type |-> "directory", size |-> 0, children |-> children]

\* ordered forests of exactly n nodes, and trees of exactly n nodes
RECURSIVE Forests(_)
RECURSIVE TreesOfSize(_)
Forests(n) ==
    IF n = 0 THEN {<<>>}
    ELSE UNION {{<<t>> \o f : t \in TreesOfSize(k), f \in Forests(n - k)} : k \in 1..n}

TreesOfSize(k) ==
    IF k = 1 THEN {Leaf(s) : s \in FileSizes} \cup {Dir(<<>>)}
    ELSE {Dir(f) : f \in Forests(k - 1)}

\* name and path of every node: the path is the list of child indices
RECURSIVE WithPaths(_, _)
WithPaths(node, path) ==
    [name |-> IF path = <<>> THEN 0 ELSE path[Len(path)],
     path |-> path,
     type |-> node.type,
     size |-> node.size,
     children |-> [i \in 1..Len(node.children) |->
                      WithPaths(node.children[i], Append(path, i))]]

\* the node of the input tree at a path
RECURSIVE NodeAt(_, _)
NodeAt(n, path) == IF path = <<>> THEN n ELSE NodeAt(n.children[path[1]], Tail(path))

InputTrees ==
    {WithPaths(Dir(f), <<>>) : f \in UNION {Forests(n) : n \in 0..MaxNodes}}

\* the trees handed to the flattening functions: a directory or a lone file
FlattenTrees == InputTrees \cup {WithPaths(Leaf(size), <<>>) : size \in FileSizes}

\* the scenarios: a root directory holding up to MaxScenarioFiles files and
\* nothing else, each file of no size, of 100 bytes or of 1 KB
MaxScenarioFiles == 4

FilesOf(sizes) == [i \in 1..Len(sizes) |-> Leaf(sizes[i])]

ScenarioTrees ==
    {WithPaths(Dir(FilesOf(sizes)), <<>>) : sizes \in SeqsUpTo(ScenarioSizes, MaxScenarioFiles)}

\* CityScene lays the tree out in generateCityLayout(data, 0, 0, 80, 80)
RootRect == <<Zero, Zero, Rat(80, 1), Rat(80, 1)>>

\* final footprints of a building: sides from MIN_VISUAL_FOOTPRINT to MAX_FOOTPRINT
FootprintSides == {MIN_VISUAL_FOOTPRINT, Rat(2, 1), MAX_FOOTPRINT}

Footprints == FootprintSides \X FootprintSides

\* rectangles of a district: the recursion hands generateCityLayout sides of
\* MIN_BLOCK_SIZE or more (innerW, innerD)
DistrictRects ==
    {<<Rat(3, 2), Rat(3, 2), Rat(w, 1), Rat(d, 1)>> : w \in 4..MaxSide, d \in 4..MaxSide}

----------------------------------------------------------------------------
(* Specifications *)

NoItems == <<>>
NoRect == <<>>
NoCells == <<>>
NoRaw == <<>>
NoShape == <<>>
NoTree == <<>>
NoLayout == <<>>
NoBytes == <<>>
NoFootprint == <<>>
NoHeights == <<>>
\* the result of a function that was not called yet, and of one that returned
NoList == [called |-> FALSE, value |-> <<>>]
NoBounds == [called |-> FALSE, value |-> <<>>]
Returned(v) == [called |-> TRUE, value |-> v]

NoWalk == <<>>
NoScene == <<>>
NoServer == <<>>

NoStepCall == walk = NoWalk /\ scene = NoScene /\ server = NoServer

NoHeightCall == bytes = NoBytes /\ footprint = NoFootprint /\ heights = NoHeights

NoFlattenCall ==
    flatBuildings = NoList /\ flatDistricts = NoList /\ layoutBounds = NoBounds

InitSquarify ==
    /\ pc = "squarify"
    /\ NoHeightCall
    /\ NoFlattenCall
    /\ NoStepCall
    /\ items \in ItemLists
    /\ rect \in Rects
    /\ cells = NoCells
    /\ raw = NoRaw
    /\ shaped = NoShape
    /\ tree = NoTree
    /\ layout = NoLayout

CallSquarify ==
    /\ pc = "squarify"
    /\ cells' = squarify(items, rect[1], rect[2], rect[3], rect[4])
    /\ pc' = "squarified"
    /\ UNCHANGED <<items, rect, raw, shaped, tree, layout>>
    /\ UNCHANGED <<heightVars, flattenVars, stepVars>>

SpecSquarify == InitSquarify /\ [][CallSquarify]_vars

InitShape ==
    /\ pc = "shape"
    /\ NoHeightCall
    /\ NoFlattenCall
    /\ NoStepCall
    /\ raw \in RawCells
    /\ shaped = NoShape
    /\ items = NoItems
    /\ rect = NoRect
    /\ cells = NoCells
    /\ tree = NoTree
    /\ layout = NoLayout

CallShape ==
    /\ pc = "shape"
    /\ shaped' = shapeFootprint(raw[1], raw[2])
    /\ pc' = "shaped"
    /\ UNCHANGED <<items, rect, cells, raw, tree, layout>>
    /\ UNCHANGED <<heightVars, flattenVars, stepVars>>

SpecShape == InitShape /\ [][CallShape]_vars

\* squarify on items whose weights may be 0
InitSquarifyAnyWeight ==
    /\ pc = "squarify"
    /\ NoHeightCall
    /\ NoFlattenCall
    /\ NoStepCall
    /\ items \in AnyWeightLists
    /\ rect \in Rects
    /\ cells = NoCells
    /\ raw = NoRaw
    /\ shaped = NoShape
    /\ tree = NoTree
    /\ layout = NoLayout

SpecSquarifyAnyWeight == InitSquarifyAnyWeight /\ [][CallSquarify]_vars

InitLayout ==
    /\ pc = "layout"
    /\ NoHeightCall
    /\ NoFlattenCall
    /\ NoStepCall
    /\ tree \in InputTrees
    /\ rect = RootRect
    /\ layout = NoLayout
    /\ items = NoItems
    /\ cells = NoCells
    /\ raw = NoRaw
    /\ shaped = NoShape

CallLayout ==
    /\ pc = "layout"
    /\ layout' = generateCityLayout(tree, rect[1], rect[2], rect[3], rect[4], 0)
    /\ pc' = "laidOut"
    /\ UNCHANGED <<items, rect, cells, raw, shaped, tree>>
    /\ UNCHANGED <<heightVars, flattenVars, stepVars>>

SpecLayout == InitLayout /\ [][CallLayout]_vars

\* generateCityLayout on a tree in the rectangle of a small district
InitDistrict ==
    /\ pc = "district"
    /\ NoHeightCall
    /\ NoFlattenCall
    /\ NoStepCall
    /\ tree \in InputTrees
    /\ rect \in DistrictRects
    /\ layout = NoLayout
    /\ items = NoItems
    /\ cells = NoCells
    /\ raw = NoRaw
    /\ shaped = NoShape

CallDistrict ==
    /\ pc = "district"
    /\ layout' = generateCityLayout(tree, rect[1], rect[2], rect[3], rect[4], 0)
    /\ pc' = "laidOut"
    /\ UNCHANGED <<items, rect, cells, raw, shaped, tree>>
    /\ UNCHANGED <<heightVars, flattenVars, stepVars>>

SpecDistrict == InitDistrict /\ [][CallDistrict]_vars

\* baseHeight and adjustedHeight of a file of this size on this footprint
AdjustedFrom(baseHeight, finalW, finalD) ==
    [base |-> baseHeight,
     adjusted |-> applyFootprintHeightScale(baseHeight, finalW, finalD)]

HeightOn(size, finalW, finalD) ==
    AdjustedFrom(calculateBuildingHeight(size), finalW, finalD)

\* the heights of two files, the second no smaller than the first, on
\* footprints of the same size
InitHeight ==
    /\ pc = "height"
    /\ bytes \in {p \in HeightSizes \X HeightSizes : Le(p[1], p[2])}
    /\ footprint \in Footprints
    /\ heights = NoHeights
    /\ NoFlattenCall
    /\ NoStepCall
    /\ items = NoItems
    /\ rect = NoRect
    /\ cells = NoCells
    /\ raw = NoRaw
    /\ shaped = NoShape
    /\ tree = NoTree
    /\ layout = NoLayout

CallHeight ==
    /\ pc = "height"
    /\ heights' = [i \in 1..2 |-> HeightOn(bytes[i], footprint[1], footprint[2])]
    /\ pc' = "heightDone"
    /\ UNCHANGED <<items, rect, cells, raw, shaped, tree, layout, bytes, footprint>>
    /\ UNCHANGED <<flattenVars, stepVars>>

SpecHeight == InitHeight /\ [][CallHeight]_vars

\* the layout of a tree, then flattenBuildings, flattenDistricts and
\* getLayoutBounds on it, each once and in any order (CityScene calls them
\* from separate useMemo hooks)
InitFlatten ==
    /\ pc = "layout"
    /\ NoHeightCall
    /\ NoFlattenCall
    /\ NoStepCall
    /\ tree \in FlattenTrees
    /\ rect = RootRect
    /\ layout = NoLayout
    /\ items = NoItems
    /\ cells = NoCells
    /\ raw = NoRaw
    /\ shaped = NoShape

CallFlattenBuildings ==
    /\ pc = "laidOut"
    /\ ~flatBuildings.called
    /\ flatBuildings' = Returned(flattenBuildings(layout))
    /\ UNCHANGED <<pc, items, rect, cells, raw, shaped, tree, layout>>
    /\ UNCHANGED <<heightVars, flatDistricts, layoutBounds, stepVars>>

CallFlattenDistricts ==
    /\ pc = "laidOut"
    /\ ~flatDistricts.called
    /\ flatDistricts' = Returned(flattenDistricts(layout))
    /\ UNCHANGED <<pc, items, rect, cells, raw, shaped, tree, layout>>
    /\ UNCHANGED <<heightVars, flatBuildings, layoutBounds, stepVars>>

CallGetLayoutBounds ==
    /\ pc = "laidOut"
    /\ ~layoutBounds.called
    /\ layoutBounds' = Returned(getLayoutBounds(layout))
    /\ UNCHANGED <<pc, items, rect, cells, raw, shaped, tree, layout>>
    /\ UNCHANGED <<heightVars, flatBuildings, flatDistricts, stepVars>>

NextFlatten ==
    CallLayout \/ CallFlattenBuildings \/ CallFlattenDistricts \/ CallGetLayoutBounds

SpecFlatten == InitFlatten /\ [][NextFlatten]_vars

\* generateCityLayout(data, 0, 0, 80, 80) on a directory of files
InitScenario ==
    /\ pc = "layout"
    /\ NoHeightCall
    /\ NoFlattenCall
    /\ NoStepCall
    /\ tree \in ScenarioTrees
    /\ rect = RootRect
    /\ layout = NoLayout
    /\ items = NoItems
    /\ cells = NoCells
    /\ raw = NoRaw
    /\ shaped = NoShape

SpecScenario == InitScenario /\ [][CallLayout]_vars

----------------------------------------------------------------------------
(* generateCityLayout step by step: a step enters a pending call, runs one  *)
(* iteration of the while loop of squarify, or leaves a loop. JavaScript    *)
(* runs the calls depth first; the stack holds those not entered yet.       *)

\* a call generateCityLayout(node at path, x, z, width, depth_z, nodeDepth)
CallOf(path, x, z, width, depth_z, nodeDepth) ==
    [path |-> path, x |-> x, z |-> z, width |-> width, depth_z |-> depth_z,
     nodeDepth |-> nodeDepth]

\* the items the while loop of squarify starts with: none after an early return
LoopItems(its) == IF Len(its) <= 1 \/ SumSizes(its) = 0 THEN <<>> ELSE its

FilesAt(c) == SelectSeq(NodeAt(tree, c.path).children, IsFile)

DirectoriesAt(c) == SelectSeq(NodeAt(tree, c.path).children, IsDirectory)

\* the rectangle of the squarify call for the sub-directories of the call c
DirArea(c) ==
    <<c.x, c.z, c.width,
      DirAreaDepth(c.depth_z, Len(FilesAt(c)), Len(DirectoriesAt(c)))>>

\* the recursive calls of the call c, one for each cell of dirLayout
ChildCalls(c, dirLayout) ==
    [i \in 1..Len(dirLayout) |->
        CallOf(dirLayout[i].node.path,
               InnerOrigin(dirLayout[i].x), InnerOrigin(dirLayout[i].z),
               InnerSide(dirLayout[i].w), InnerSide(dirLayout[i].d),
               c.nodeDepth + 1)]

\* the number of items the for loop at the head of an iteration puts in the row
RowLength(remaining, area) ==
    IF Ge(area[3], area[4])
    THEN GrowRow(remaining, 0, 0, SumSizes(remaining), area[3], area[4])
    ELSE GrowRow(remaining, 0, 0, SumSizes(remaining), area[4], area[3])

InitWalk ==
    /\ pc = "walk"
    /\ NoHeightCall
    /\ NoFlattenCall
    /\ tree \in FlattenTrees
    /\ rect = RootRect
    /\ walk = [stack |-> <<CallOf(<<>>, rect[1], rect[2], rect[3], rect[4], 0)>>,
               phase |-> "idle",
               call |-> CallOf(<<>>, rect[1], rect[2], rect[3], rect[4], 0),
               area |-> rect,
               remaining |-> <<>>,
               given |-> 0,
               iterations |-> 0,
               longest |-> 0,
               calls |-> 0]
    /\ scene = NoScene
    /\ server = NoServer
    /\ layout = NoLayout
    /\ items = NoItems
    /\ cells = NoCells
    /\ raw = NoRaw
    /\ shaped = NoShape

WalkFrame ==
    UNCHANGED <<pc, items, rect, cells, raw, shaped, tree, layout, heightVars,
                flattenVars, scene, server>>

\* squarify is called on its: the while loop starts
StartLoop(phase, c, area, its) ==
    walk' = [walk EXCEPT !.phase = phase, !.call = c, !.area = area,
                         !.remaining = LoopItems(its), !.given = Len(its),
                         !.iterations = 0]

\* the next pending call is entered: a file returns at once, a directory
\* goes on to the squarify call for its files
EnterCall ==
    /\ pc = "walk"
    /\ walk.phase = "idle"
    /\ walk.stack # <<>>
    /\ IF NodeAt(tree, walk.stack[1].path).type = "file"
       THEN walk' = [walk EXCEPT !.stack = Tail(walk.stack), !.call = walk.stack[1],
                                 !.calls = walk.calls + 1]
       ELSE walk' = [walk EXCEPT
                        !.stack = Tail(walk.stack),
                        !.calls = walk.calls + 1,
                        !.phase = "files",
                        !.call = walk.stack[1],
                        !.area = FileArea(walk.stack[1].x, walk.stack[1].z,
                                          walk.stack[1].width, walk.stack[1].depth_z,
                                          Len(FilesAt(walk.stack[1])),
                                          Len(DirectoriesAt(walk.stack[1]))),
                        !.remaining = LoopItems(FileItems(FilesAt(walk.stack[1]))),
                        !.given = Len(FilesAt(walk.stack[1])),
                        !.iterations = 0]
    /\ WalkFrame

\* one iteration of the while loop: a row is grown and its items leave remaining
RowStep ==
    /\ pc = "walk"
    /\ walk.phase \in {"files", "directories"}
    /\ walk.remaining # <<>>
    /\ walk' = [walk EXCEPT
                   !.remaining = SubSeq(walk.remaining,
                                        RowLength(walk.remaining, walk.area) + 1,
                                        Len(walk.remaining)),
                   !.iterations = walk.iterations + 1,
                   !.longest = IF walk.iterations + 1 > walk.longest
                               THEN walk.iterations + 1 ELSE walk.longest]
    /\ WalkFrame

\* the file layout is done: squarify is called for the sub-directories
EndFiles ==
    /\ pc = "walk"
    /\ walk.phase = "files"
    /\ walk.remaining = <<>>
    /\ StartLoop("directories", walk.call, DirArea(walk.call),
                 DirItems(DirectoriesAt(walk.call)))
    /\ WalkFrame

\* the directory layout is done: one recursive call for each of its cells
EndDirectories ==
    /\ pc = "walk"
    /\ walk.phase = "directories"
    /\ walk.remaining = <<>>
    /\ walk' = [walk EXCEPT
                   !.phase = "idle",
                   !.stack = ChildCalls(walk.call,
                                        DirLayout(NodeAt(tree, walk.call.path),
                                                  walk.call.x, walk.call.z,
                                                  walk.call.width, walk.call.depth_z))
                             \o walk.stack]
    /\ WalkFrame

NextWalk == EnterCall \/ RowStep \/ EndFiles \/ EndDirectories

SpecWalk == InitWalk /\ [][NextWalk]_vars

\* a step of generateCityLayout is left to take: a call is pending or a loop
\* is running. Each of EnterCall, RowStep, EndFiles and EndDirectories can
\* be taken whenever its guard on walk.phase, walk.stack and walk.remaining
\* holds and changes walk, so this is ENABLED <<NextWalk>>_vars
WalkPending == pc = "walk" /\ (walk.phase # "idle" \/ walk.stack # <<>>)

\* generateCityLayout runs to completion: JavaScript does not suspend a
\* synchronous call, so a step that can be taken is taken. This is weak
\* fairness of NextWalk, with its enabling condition written out
WalkRunsToCompletion == []<>(~WalkPending) \/ []<><<NextWalk>>_vars

SpecWalkFair == SpecWalk /\ WalkRunsToCompletion

----------------------------------------------------------------------------
(* CityScene: the component renders with a data prop and four pieces of     *)
(* state; layout is useMemo(() => generateCityLayout(data, 0, 0, 80, 80),   *)
(* [data]). A tree object is a reference and a content: useMemo compares    *)
(* references. An event handler queues state updates and returns; a render  *)
(* applies every update queued since the render before, so that several     *)
(* events can share one render. A handler made by useCallback reads the     *)
(* state of the render that made it.                                        *)

\* the number of tree objects the parent hands over
MaxTreeRefs == 2

\* the number of state updates queued between two renders
MaxPending == 3

\* the contents of a tree object
SceneTrees ==
    {WithPaths(Dir(<<>>), <<>>),
     WithPaths(Dir(<<Leaf(1000), Dir(<<Leaf(0)>>)>>), <<>>)}

NoMemo == [set |-> FALSE, deps |-> 0, value |-> <<>>]

NoNode == [set |-> FALSE, path |-> <<>>, of |-> 0]

\* a dependency list [data] that never differs from the last one
DepsNeverChanged(memo, data) == ~memo.set

\* useMemo finds no value, or a dependency that is not the same object
DepsChanged(memo, data) == ~memo.set \/ memo.deps # data.ref

\* useMemo(() => generateCityLayout(data, 0, 0, 80, 80), [data])
UseMemo(memo, data) ==
    IF DepsChanged(memo, data)
    THEN [set |-> TRUE, deps |-> data.ref,
          value |-> generateCityLayout(data.tree, RootRect[1], RootRect[2],
                                       RootRect[3], RootRect[4], 0)]
    ELSE memo

\* the update queues of the four useState hooks
NoPending == [hoveredNode |-> <<>>, hoveredRoad |-> <<>>, isLocked |-> <<>>, isFlying |-> <<>>]

\* useState in a render: the value of the render before, after the updates
\* queued since, in the order of the calls (each update here is a value, or
\* a function that does not read the value before)
RECURSIVE UseState(_, _)
UseState(value, queue) ==
    IF queue = <<>> THEN value ELSE UseState(Head(queue), Tail(queue))

\* the render of CityScene with the prop data
Render(data) ==
    scene' = [scene EXCEPT
                 !.mounted = TRUE,
                 !.data = data,
                 !.memo = UseMemo(scene.memo, data),
                 !.computed = DepsChanged(scene.memo, data),
                 !.calls = IF DepsChanged(scene.memo, data) THEN @ + 1 ELSE @,
                 !.hoveredNode = UseState(@, scene.pending.hoveredNode),
                 !.hoveredRoad = UseState(@, scene.pending.hoveredRoad),
                 !.isLocked = UseState(@, scene.pending.isLocked),
                 !.isFlying = UseState(@, scene.pending.isFlying),
                 !.pending = NoPending,
                 !.refs = IF data.ref > scene.refs THEN data.ref ELSE scene.refs]

\* the number of updates queued since the last render
Queued(pending) ==
    Len(pending.hoveredNode) + Len(pending.hoveredRoad) + Len(pending.isLocked)
        + Len(pending.isFlying)

\* the setter of a useState hook, called from an event handler
SetState(pending, hook, value) == [pending EXCEPT ![hook] = Append(@, value)]

\* the layout the last render handed to CityContent
LayoutInUse == scene.memo.value

InitScene ==
    /\ pc = "scene"
    /\ NoHeightCall
    /\ NoFlattenCall
    /\ walk = NoWalk
    /\ server = NoServer
    /\ scene = [mounted |-> FALSE, data |-> [ref |-> 0, tree |-> <<>>], memo |-> NoMemo,
                computed |-> FALSE, calls |-> 0, hoveredNode |-> NoNode,
                hoveredRoad |-> FALSE, isLocked |-> FALSE, isFlying |-> TRUE,
                pending |-> NoPending, refs |-> 0]
    /\ tree = NoTree
    /\ rect = NoRect
    /\ layout = NoLayout
    /\ items = NoItems
    /\ cells = NoCells
    /\ raw = NoRaw
    /\ shaped = NoShape

SceneFrame ==
    UNCHANGED <<pc, items, rect, cells, raw, shaped, tree, layout, heightVars,
                flattenVars, walk, server>>

\* the parent renders CityScene with a tree object it did not hand over
\* before: the first render, or a replacement of the tree
ReplaceTree ==
    /\ pc = "scene"
    /\ scene.refs < MaxTreeRefs
    /\ \E t \in SceneTrees : Render([ref |-> scene.refs + 1, tree |-> t])
    /\ SceneFrame

\* a render with the tree object of the render before: the one React
\* schedules for queued state updates, or a render of the parent
Rerender ==
    /\ pc = "scene"
    /\ scene.mounted
    /\ Render(scene.data)
    /\ SceneFrame

\* the nodes Buildings passes to onHover: a building of the layout, or null
HoverTargetsOf(buildings, ref) ==
    {NoNode} \cup {[set |-> TRUE, path |-> buildings[k].path, of |-> ref] :
                       k \in 1..Len(buildings)}

HoverTargets == HoverTargetsOf(flattenBuildings(LayoutInUse), scene.memo.deps)

\* handleHover(node): setHoveredNode(node); if (node) setHoveredRoad(null)
handleHover(pending, node) ==
    IF node.set
    THEN SetState(SetState(pending, "hoveredNode", node), "hoveredRoad", FALSE)
    ELSE SetState(pending, "hoveredNode", node)

\* handleRoadHover(connection) of the last render:
\* setHoveredRoad((prev) => (hoveredNode ? null : connection)), where
\* hoveredNode is the state of that render (useCallback(..., [hoveredNode]))
handleRoadHover(pending, hoveredNode, connection) ==
    SetState(pending, "hoveredRoad", IF hoveredNode.set THEN FALSE ELSE connection)

\* handleFlyModeChange(flying): setIsFlying(flying)
handleFlyModeChange(pending, flying) == SetState(pending, "isFlying", flying)

\* handleChange of the pointerlockchange listener:
\* setIsLocked(document.pointerLockElement !== null)
handleChange(pending, locked) == SetState(pending, "isLocked", locked)

\* an event: the handler of the last render queues its updates
Handled(pending) ==
    /\ Queued(pending) <= MaxPending
    /\ scene' = [scene EXCEPT !.pending = pending]

Hover ==
    /\ pc = "scene"
    /\ scene.mounted
    /\ \E node \in HoverTargets : Handled(handleHover(scene.pending, node))
    /\ SceneFrame

RoadHover ==
    /\ pc = "scene"
    /\ scene.mounted
    /\ \E connection \in BOOLEAN :
          Handled(handleRoadHover(scene.pending, scene.hoveredNode, connection))
    /\ SceneFrame

PointerLockChange ==
    /\ pc = "scene"
    /\ scene.mounted
    /\ \E locked \in BOOLEAN : Handled(handleChange(scene.pending, locked))
    /\ SceneFrame

FlyModeChange ==
    /\ pc = "scene"
    /\ scene.mounted
    /\ \E flying \in BOOLEAN : Handled(handleFlyModeChange(scene.pending, flying))
    /\ SceneFrame

NextScene ==
    \/ ReplaceTree \/ Rerender \/ Hover \/ RoadHover
    \/ PointerLockChange \/ FlyModeChange

SpecScene == InitScene /\ [][NextScene]_vars

----------------------------------------------------------------------------
(* The server: GET /api/dependencies with dependencyCache and               *)
(* dependencyCacheTime. A handler runs without interruption up to its await *)
(* and again from the settlement of scanDependencies to its end; handlers   *)
(* of concurrent requests interleave at the await only.                     *)

CACHE_TTL == 30000

\* requests in a behaviour, the step of Date.now() and its last value
MaxRequests == 4
TickMs == 15000
MaxClock == 45000

Requests == 1..MaxRequests

\* dependencyCache = null; a graph is named by the request whose scan made it
NoGraph == 0

NoRequest == [state |-> "idle", now |-> 0, status |-> 0, body |-> NoGraph]

\* a validity test that takes a cache of exactly CACHE_TTL for valid
CacheValidInclusive(cache, cacheTime, now) ==
    cache # NoGraph /\ now - cacheTime <= CACHE_TTL

\* dependencyCache && now - dependencyCacheTime < CACHE_TTL
CacheValid(cache, cacheTime, now) ==
    cache # NoGraph /\ now - cacheTime < CACHE_TTL

InitServer ==
    /\ pc = "server"
    /\ NoHeightCall
    /\ NoFlattenCall
    /\ walk = NoWalk
    /\ scene = NoScene
    /\ server = [clock |-> 0, dependencyCache |-> NoGraph, dependencyCacheTime |-> 0,
                 requests |-> [r \in Requests |-> NoRequest]]
    /\ tree = NoTree
    /\ rect = NoRect
    /\ layout = NoLayout
    /\ items = NoItems
    /\ cells = NoCells
    /\ raw = NoRaw
    /\ shaped = NoShape

ServerFrame ==
    UNCHANGED <<pc, items, rect, cells, raw, shaped, tree, layout, heightVars,
                flattenVars, walk, scene>>

\* time passes
Tick ==
    /\ pc = "server"
    /\ server.clock + TickMs <= MaxClock
    /\ server' = [server EXCEPT !.clock = @ + TickMs]
    /\ ServerFrame

\* the handler up to the return of the cache, or up to the await
Receive(r) ==
    /\ pc = "server"
    /\ server.requests[r].state = "idle"
    /\ \A q \in Requests : q < r => server.requests[q].state # "idle"
    /\ server' =
          IF CacheValid(server.dependencyCache, server.dependencyCacheTime, server.clock)
          THEN [server EXCEPT !.requests[r] =
                   [state |-> "cached", now |-> server.clock, status |-> 200,
                    body |-> server.dependencyCache]]
          ELSE [server EXCEPT !.requests[r] =
                   [state |-> "scanning", now |-> server.clock, status |-> 0,
                    body |-> NoGraph]]
    /\ ServerFrame

\* scanDependencies resolves: the handler from the await to its end
ScanResolves(r) ==
    /\ pc = "server"
    /\ server.requests[r].state = "scanning"
    /\ server' = [server EXCEPT
                     !.dependencyCache = r,
                     !.dependencyCacheTime = server.requests[r].now,
                     !.requests[r] = [state |-> "scanned", now |-> server.requests[r].now,
                                      status |-> 200, body |-> r]]
    /\ ServerFrame

\* scanDependencies rejects: the catch clause
ScanRejects(r) ==
    /\ pc = "server"
    /\ server.requests[r].state = "scanning"
    /\ server' = [server EXCEPT
                     !.requests[r] = [state |-> "failed", now |-> server.requests[r].now,
                                      status |-> 500, body |-> NoGraph]]
    /\ ServerFrame

ReceiveAny == \E r \in Requests : Receive(r)

ScanResolvesAny == \E r \in Requests : ScanResolves(r)

ScanRejectsAny == \E r \in Requests : ScanRejects(r)

NextServer == Tick \/ ReceiveAny \/ ScanResolvesAny \/ ScanRejectsAny

SpecServer == InitServer /\ [][NextServer]_vars

Init ==
    \/ InitWalk \/ InitScene \/ InitServer
    \/ InitSquarify \/ InitShape \/ InitLayout \/ InitDistrict \/ InitHeight
    \/ InitFlatten \/ InitScenario \/ InitSquarifyAnyWeight

Next ==
    \/ CallSquarify \/ CallShape \/ CallLayout \/ CallDistrict \/ CallHeight
    \/ CallFlattenBuildings \/ CallFlattenDistricts \/ CallGetLayoutBounds
    \/ EnterCall \/ RowStep \/ EndFiles \/ EndDirectories
    \/ ReplaceTree \/ Rerender \/ Hover \/ RoadHover
    \/ PointerLockChange \/ FlyModeChange
    \/ Tick \/ ReceiveAny \/ ScanResolvesAny \/ ScanRejectsAny

Spec == Init /\ [][Next]_vars

----------------------------------------------------------------------------
(* Geometry used by the properties: rectangles are records with x, z,     *)
(* width and depth_z, as CityNode carries them                             *)

CellRect(c) == [x |-> c.x, z |-> c.z, width |-> c.w, depth_z |-> c.d]

InputRect == [x |-> rect[1], z |-> rect[2], width |-> rect[3], depth_z |-> rect[4]]

Area(r) == Mul(r.width, r.depth_z)

\* r lies inside p
Within(r, p) ==
    /\ Ge(r.x, p.x)
    /\ Ge(r.z, p.z)
    /\ Le(Add(r.x, r.width), Add(p.x, p.width))
    /\ Le(Add(r.z, r.depth_z), Add(p.z, p.depth_z))

\* a and b share a region of positive area
Intersects(a, b) ==
    /\ Lt(Max2(a.x, b.x), Min2(Add(a.x, a.width), Add(b.x, b.width)))
    /\ Lt(Max2(a.z, b.z), Min2(Add(a.z, a.depth_z), Add(b.z, b.depth_z)))

PairwiseDisjoint(rs) ==
    \A i, j \in 1..Len(rs) : i < j => ~Intersects(rs[i], rs[j])

RECURSIVE SumAreas(_, _)
SumAreas(rs, k) ==
    IF k > Len(rs) THEN Zero ELSE Add(Area(rs[k]), SumAreas(rs, k + 1))

CellRects == [i \in 1..Len(cells) |-> CellRect(cells[i])]

\* the directory nodes of a layout
RECURSIVE DirectoryNodes(_)
DirectoryNodes(n) ==
    IF n.type = "file" THEN {}
    ELSE {n} \cup UNION {DirectoryNodes(n.children[i]) : i \in 1..Len(n.children)}

----------------------------------------------------------------------------
(* Properties of squarify *)

\* C1: every rectangle squarify returns lies inside the input rectangle and
\* the rectangles together cover it exactly (inside, disjoint, and their
\* areas add up to its area), whatever the number of rows.
C1_TilesInputRect ==
    pc = "squarified" =>
        /\ \A i \in 1..Len(cells) : Within(CellRects[i], InputRect)
        /\ PairwiseDisjoint(CellRects)
        /\ Eq(SumAreas(CellRects, 1), Area(InputRect))

\* C2: area conservation: the rectangle of item i has area (w_i / W) * A.
C2_AreaConservation ==
    pc = "squarified" =>
        /\ Len(cells) = Len(items)
        /\ \A i \in 1..Len(cells) :
              Eq(Area(CellRects[i]),
                 Mul(Rat(items[i].size, SumSizes(items)), Area(InputRect)))

\* C3: any two distinct rectangles returned by one squarify call have zero
\* intersection area.
C3_NoOverlap == pc = "squarified" => PairwiseDisjoint(CellRects)

\* a call that formed a row of two items and a further row
C3_Witness ==
    /\ pc = "squarified"
    /\ \E i, j, k \in 1..Len(cells) :
          /\ i < j
          /\ \/ Eq(cells[i].x, cells[j].x) /\ ~Eq(cells[i].x, cells[k].x)
             \/ Eq(cells[i].z, cells[j].z) /\ ~Eq(cells[i].z, cells[k].z)

----------------------------------------------------------------------------
(* Properties of shapeFootprint *)

\* C8: shapeFootprint never returns a footprint larger than the raw cell:
\* width <= rawWidth and depth <= rawDepth for every positive raw cell, the
\* cells smaller than MIN_VISUAL_FOOTPRINT included.
C8_NeverExceedsRawCell ==
    pc = "shaped" => Le(shaped.width, raw[1]) /\ Le(shaped.depth, raw[2])

----------------------------------------------------------------------------
(* Properties of generateCityLayout *)


\* the squarify cells behind the buildings of the district D, in the same order
FileCells(D) == FileLayout(NodeAt(tree, D.path), D.x, D.z, D.width, D.depth_z)

\* C4: every building and every sub-district of a directory node lies within
\* the rectangle of that directory node.
C4_NodesWithinParent ==
    pc = "laidOut" =>
        \A D \in DirectoryNodes(layout) :
            /\ \A i \in 1..Len(D.buildings) : Within(D.buildings[i], D)
            /\ \A i \in 1..Len(D.children) : Within(D.children[i], D)

\* C5: any two distinct buildings of one directory node have footprints with
\* zero intersection area.
C5_SiblingBuildingsDisjoint ==
    pc = "laidOut" => \A D \in DirectoryNodes(layout) : PairwiseDisjoint(D.buildings)

\* C6: any two distinct sub-districts of one directory node have rectangles
\* with zero intersection area.
C6_SiblingDistrictsDisjoint ==
    pc = "laidOut" => \A D \in DirectoryNodes(layout) : PairwiseDisjoint(D.children)

InFootprintRange(v) == Le(MIN_VISUAL_FOOTPRINT, v) /\ Le(v, MAX_FOOTPRINT)

\* C9: every building of a buildings list has width and depth_z between
\* MIN_VISUAL_FOOTPRINT and MAX_FOOTPRINT.
C9_BuildingSizeBounds ==
    pc = "laidOut" =>
        \A D \in DirectoryNodes(layout) :
            \A i \in 1..Len(D.buildings) :
                /\ InFootprintRange(D.buildings[i].width)
                /\ InFootprintRange(D.buildings[i].depth_z)

\* a district with a building from a cell narrower than MIN_VISUAL_FOOTPRINT
\* and a building from a cell wider than MAX_FOOTPRINT
C9_Witness ==
    /\ pc = "laidOut"
    /\ \E D \in DirectoryNodes(layout) :
          \E i, j \in 1..Len(D.buildings) :
              /\ Lt(FileCells(D)[i].w, MIN_VISUAL_FOOTPRINT)
              /\ Gt(FileCells(D)[j].w, MAX_FOOTPRINT)
              /\ Gt(FileCells(D)[j].d, MAX_FOOTPRINT)

\* the building of this cell is shaped without the MAX_FOOTPRINT downscale
\* and without any minimum-size clamp (the 0.2 floors, the MIN_FOOTPRINT
\* upscale, the MIN_VISUAL_FOOTPRINT floors)
NoSizeClamp(cell) ==
    LET rawW == RawSide(cell.w)
        rawD == RawSide(cell.d)
        a == AspectClamp(rawW, rawD)
        s == shapeFootprint(rawW, rawD)
        pad == Mul(DynamicPadding(s), Two)
    IN  /\ Ge(Sub(cell.w, Mul(BUILDING_GAP, Two)), Fifth)
        /\ Ge(Sub(cell.d, Mul(BUILDING_GAP, Two)), Fifth)
        /\ Le(OverScale(a.w, a.d), One)
        /\ Ge(a.w, MIN_FOOTPRINT)
        /\ Ge(a.d, MIN_FOOTPRINT)
        /\ Ge(Sub(Min2(a.w, Usable(rawW)), SAFETY_INSET), MIN_VISUAL_FOOTPRINT)
        /\ Ge(Sub(Min2(a.d, Usable(rawD)), SAFETY_INSET), MIN_VISUAL_FOOTPRINT)
        /\ Ge(Sub(s.width, pad), MIN_VISUAL_FOOTPRINT)
        /\ Ge(Sub(s.depth, pad), MIN_VISUAL_FOOTPRINT)

InAspectRange(b) ==
    /\ Le(MIN_ASPECT, Div(b.width, b.depth_z))
    /\ Le(Div(b.width, b.depth_z), MAX_ASPECT)

\* C10: every building whose footprint went through neither the
\* MAX_FOOTPRINT downscale nor a minimum-size clamp has a final
\* width / depth_z between MIN_ASPECT and MAX_ASPECT.
C10_AspectBound ==
    pc = "laidOut" =>
        \A D \in DirectoryNodes(layout) :
            \A i \in 1..Len(D.buildings) :
                NoSizeClamp(FileCells(D)[i]) => InAspectRange(D.buildings[i])


----------------------------------------------------------------------------
(* Order of the cells of squarify *)

\* C11: squarify returns one rectangle per supplied item and the i-th
\* returned entry carries the i-th supplied item (its node and its size):
\* the output order is the input order, whatever the weights.
C11_OrderPreserved ==
    pc = "squarified" =>
        /\ Len(cells) = Len(items)
        /\ \A i \in 1..Len(items) :
              cells[i].node = items[i].node /\ cells[i].size = items[i].size

\* three items in ascending order of weight, laid out in more than one row
C11_Witness ==
    /\ pc = "squarified"
    /\ Len(items) = 3
    /\ items[1].size < items[2].size
    /\ items[2].size < items[3].size
    /\ Len(cells) = 3
    /\ \E i \in 1..2 : ~Eq(cells[i].x, cells[i + 1].x) /\ ~Eq(cells[i].z, cells[i + 1].z)


----------------------------------------------------------------------------
(* Zones of a directory *)

NumFiles(D) == Len(SelectSeq(NodeAt(tree, D.path).children, IsFile))

NumDirectories(D) == Len(SelectSeq(NodeAt(tree, D.path).children, IsDirectory))

\* dirAreaDepth of the district D
ZoneDepth(D) == DirAreaDepth(D.depth_z, NumFiles(D), NumDirectories(D))

\* the rectangle handed to squarify for the files of the district D
FileZone(D) == FileArea(D.x, D.z, D.width, D.depth_z, NumFiles(D), NumDirectories(D))

\* the squarify cells behind the sub-districts of the district D
DirCells(D) == DirLayout(NodeAt(tree, D.path), D.x, D.z, D.width, D.depth_z)

\* C12: in a directory with both direct files and sub-directories the strip
\* of depth ROAD_WIDTH between the zones stays empty: no child district
\* reaches beyond z + dirAreaDepth and no building starts before
\* z + dirAreaDepth + ROAD_WIDTH.
C12_RoadStripEmpty ==
    pc = "laidOut" =>
        \A D \in DirectoryNodes(layout) :
            (NumFiles(D) > 0 /\ NumDirectories(D) > 0) =>
                /\ \A i \in 1..Len(D.children) :
                      Le(Add(D.children[i].z, D.children[i].depth_z),
                         Add(D.z, ZoneDepth(D)))
                /\ \A i \in 1..Len(D.buildings) :
                      Ge(D.buildings[i].z, Add(Add(D.z, ZoneDepth(D)), ROAD_WIDTH))

Positive(v) == Gt(v, Zero)

\* C13: every rectangle has width > 0 and depth > 0: the file zone and the
\* directory zone handed to squarify, every cell squarify returns, and every
\* district and building of the layout.
C13_PositiveRectangles ==
    pc = "laidOut" =>
        /\ Positive(layout.width) /\ Positive(layout.depth_z)
        /\ \A D \in DirectoryNodes(layout) :
              /\ Positive(D.width) /\ Positive(D.depth_z)
              /\ NumFiles(D) > 0 => Positive(FileZone(D)[3]) /\ Positive(FileZone(D)[4])
              /\ NumDirectories(D) > 0 => Positive(D.width) /\ Positive(ZoneDepth(D))
              /\ \A i \in 1..Len(FileCells(D)) :
                    Positive(FileCells(D)[i].w) /\ Positive(FileCells(D)[i].d)
              /\ \A i \in 1..Len(DirCells(D)) :
                    Positive(DirCells(D)[i].w) /\ Positive(DirCells(D)[i].d)
              /\ \A i \in 1..Len(D.buildings) :
                    Positive(D.buildings[i].width) /\ Positive(D.buildings[i].depth_z)


----------------------------------------------------------------------------
(* Weights *)

\* the nodes of an input tree
RECURSIVE InputNodes(_)
InputNodes(n) ==
    {n} \cup UNION {InputNodes(n.children[i]) : i \in 1..Len(n.children)}

RECURSIVE SumOfWeights(_, _)
SumOfWeights(children, k) ==
    IF k > Len(children) THEN 0
    ELSE calculateNodeSize(children[k]) + SumOfWeights(children, k + 1)

\* C14: the weight calculateNodeSize gives a node is strictly positive: a
\* file weighs its size when the size is nonzero and 100 otherwise, a
\* directory without children weighs 100, any other directory weighs the sum
\* of the weights of its children; and no cell of squarify carries weight 0.
C14_PositiveWeight ==
    tree # NoTree =>
        /\ \A n \in InputNodes(tree) :
              /\ calculateNodeSize(n) > 0
              /\ (n.type = "file" /\ n.size # 0) => calculateNodeSize(n) = n.size
              /\ (n.type = "file" /\ n.size = 0) => calculateNodeSize(n) = 100
              /\ (n.type = "directory" /\ n.children = <<>>) => calculateNodeSize(n) = 100
              /\ (n.type = "directory" /\ n.children # <<>>) =>
                    calculateNodeSize(n) = SumOfWeights(n.children, 1)
        /\ pc = "laidOut" =>
              \A D \in DirectoryNodes(layout) :
                  /\ \A i \in 1..Len(FileCells(D)) : FileCells(D)[i].size > 0
                  /\ \A i \in 1..Len(DirCells(D)) : DirCells(D)[i].size > 0

\* a directory with a file of size 0, a file with a size and an empty
\* sub-directory, laid out
C14_Witness ==
    /\ pc = "laidOut"
    /\ \E i, j, k \in 1..Len(tree.children) :
          /\ tree.children[i].type = "file" /\ tree.children[i].size = 0
          /\ tree.children[j].type = "file" /\ tree.children[j].size > 0
          /\ tree.children[k].type = "directory" /\ tree.children[k].children = <<>>
    /\ Len(layout.buildings) = 2
    /\ Len(layout.children) = 1


----------------------------------------------------------------------------
(* Heights *)

\* C15: the height calculateBuildingHeight returns lies in [1, 80] for every
\* file size, 0 and missing included; the height after
\* applyFootprintHeightScale lies in [0.25, 80] and is at most the height
\* before it.
C15_HeightBounds ==
    pc = "heightDone" =>
        \A i \in 1..2 :
            /\ Le(One, heights[i].base)
            /\ Le(heights[i].base, Rat(80, 1))
            /\ Le(Rat(25, 100), heights[i].adjusted)
            /\ Le(heights[i].adjusted, Rat(80, 1))
            /\ Le(heights[i].adjusted, heights[i].base)

\* a file of size 0 and a file whose height is cut at 80, on a footprint
\* small enough to lower both heights
C15_Witness ==
    /\ pc = "heightDone"
    /\ Eq(bytes[1], Zero)
    /\ Gt(calculateBuildingHeightUncapped(bytes[2]), Rat(80, 1))
    /\ Eq(heights[2].base, Rat(80, 1))
    /\ Lt(heights[1].adjusted, heights[1].base)
    /\ Lt(heights[2].adjusted, heights[2].base)

\* C16: for two file sizes s1 < s2 (s1 may be 0 or missing) and the same
\* final footprint, the height computed for s1 is at most the height
\* computed for s2, before and after applyFootprintHeightScale.
C16_MonotonicHeight ==
    (pc = "heightDone" /\ Lt(bytes[1], bytes[2])) =>
        /\ Le(heights[1].base, heights[2].base)
        /\ Le(heights[1].adjusted, heights[2].adjusted)

\* two sizes of 10^12 bytes and one byte more, whose heights differ by less
\* than 10^-11, on a footprint that lowers both
C16_Witness ==
    /\ pc = "heightDone"
    /\ Eq(bytes[1], Terabyte)
    /\ Eq(bytes[2], Add(Terabyte, One))
    /\ Lt(heights[1].base, heights[2].base)
    /\ Lt(heights[2].base, Add(heights[1].base, Div(One, PowerOfTen(11))))
    /\ Lt(heights[1].adjusted, heights[2].adjusted)
    /\ Lt(heights[2].adjusted, heights[2].base)

----------------------------------------------------------------------------
(* Share of the file zone *)

\* fileAreaRatio of the district D
ZoneRatio(D) == FileAreaRatio(NumFiles(D), NumDirectories(D))

\* C17: for a directory with f direct files and s sub-directories
\* fileAreaRatio is 0 when f = 0 and min(0.4, f / (f + 3 * s)) otherwise; it
\* is never more than 0.4, and the directory zone keeps at least 60% of the
\* depth, less ROAD_WIDTH.
C17_FileAreaRatio ==
    pc = "laidOut" =>
        \A D \in DirectoryNodes(layout) :
            /\ NumFiles(D) = 0 => Eq(ZoneRatio(D), Zero)
            /\ (NumFiles(D) > 0 /\ NumFiles(D) <= 2 * NumDirectories(D)) =>
                  Eq(Mul(ZoneRatio(D), Rat(NumFiles(D) + 3 * NumDirectories(D), 1)),
                     Rat(NumFiles(D), 1))
            /\ NumFiles(D) > 2 * NumDirectories(D) => Eq(ZoneRatio(D), Rat(4, 10))
            /\ Le(ZoneRatio(D), Rat(4, 10))
            /\ Ge(ZoneDepth(D), Sub(Mul(D.depth_z, Rat(6, 10)), ROAD_WIDTH))

\* a directory whose three files would take more than 0.4 of the depth next
\* to a sub-directory without files
C17_Witness ==
    /\ pc = "laidOut"
    /\ NumFiles(layout) = 3
    /\ NumDirectories(layout) = 1
    /\ Gt(FileAreaRatioUnbounded(3, 1), Rat(4, 10))
    /\ NumFiles(layout.children[1]) = 0
    /\ Eq(ZoneDepth(layout), Sub(Mul(layout.depth_z, Rat(6, 10)), ROAD_WIDTH))

----------------------------------------------------------------------------
(* Flattening *)

PathsOfType(t) == {n.path : n \in {m \in InputNodes(tree) : m.type = t}}

\* the path of the directory a node lies in
ParentPath(p) == SubSeq(p, 1, Len(p) - 1)

IsPrefix(p, q) == Len(p) <= Len(q) /\ SubSeq(q, 1, Len(p)) = p

\* p comes before q when the tree is walked depth-first, a directory before
\* what it holds
WalkedBefore(p, q) ==
    /\ p # q
    /\ \/ IsPrefix(p, q)
       \/ \E k \in 1..Len(p) :
             /\ k <= Len(q)
             /\ SubSeq(p, 1, k - 1) = SubSeq(q, 1, k - 1)
             /\ p[k] < q[k]

\* C18: flattenBuildings on the layout of a tree returns one building per
\* file of the tree (the same paths, none twice, none missing), depth-first:
\* the buildings of a directory come before those of its sub-directories,
\* and the sub-directories follow in order.
C18_OneBuildingPerFile ==
    flatBuildings.called =>
        /\ Len(flatBuildings.value) = Cardinality(PathsOfType("file"))
        /\ {flatBuildings.value[i].path : i \in 1..Len(flatBuildings.value)} = PathsOfType("file")
        /\ \A i \in 1..Len(flatBuildings.value) : flatBuildings.value[i].type = "file"
        /\ \A i, j \in 1..Len(flatBuildings.value) :
              i < j =>
                 \/ WalkedBefore(ParentPath(flatBuildings.value[i].path),
                                 ParentPath(flatBuildings.value[j].path))
                 \/ /\ ParentPath(flatBuildings.value[i].path) = ParentPath(flatBuildings.value[j].path)
                    /\ WalkedBefore(flatBuildings.value[i].path, flatBuildings.value[j].path)

\* a file of the root listed after a sub-directory that holds a file: the
\* file of the root comes first all the same
C18_Witness ==
    /\ flatBuildings.called
    /\ Len(flatBuildings.value) = 2
    /\ flatBuildings.value[1].path = <<2>>
    /\ flatBuildings.value[2].path = <<1, 1>>

\* C19: flattenDistricts on the layout of a tree returns one district per
\* directory of the tree, the root first and every directory before its
\* descendants, and no file node.
C19_OneDistrictPerDirectory ==
    flatDistricts.called =>
        /\ Len(flatDistricts.value) = Cardinality(PathsOfType("directory"))
        /\ {flatDistricts.value[i].path : i \in 1..Len(flatDistricts.value)} = PathsOfType("directory")
        /\ \A i \in 1..Len(flatDistricts.value) : flatDistricts.value[i].type = "directory"
        /\ tree.type = "directory" => flatDistricts.value[1].path = <<>>
        /\ \A i, j \in 1..Len(flatDistricts.value) :
              i < j => WalkedBefore(flatDistricts.value[i].path, flatDistricts.value[j].path)

\* a root holding a file and a directory that holds a directory
C19_Witness ==
    /\ flatDistricts.called
    /\ PathsOfType("file") # {}
    /\ Len(flatDistricts.value) = 3
    /\ Len(flatDistricts.value[3].path) = 2

\* the buildings and the districts of a layout
LayoutBuildings ==
    IF layout.type = "file" THEN {layout}
    ELSE UNION {{D.buildings[i] : i \in 1..Len(D.buildings)} : D \in DirectoryNodes(layout)}

LayoutRectangles == LayoutBuildings \cup DirectoryNodes(layout)

\* C20: the box getLayoutBounds returns contains the rectangle of every
\* building and every district and is the smallest such box; maxHeight is
\* the greatest building height, 0 without buildings; the five values are
\* finite.
C20_BoundingBox ==
    layoutBounds.called =>
        /\ \A r \in LayoutRectangles :
              /\ Le(layoutBounds.value.minX, r.x)
              /\ Le(Add(r.x, r.width), layoutBounds.value.maxX)
              /\ Le(layoutBounds.value.minZ, r.z)
              /\ Le(Add(r.z, r.depth_z), layoutBounds.value.maxZ)
        /\ \E r \in LayoutRectangles : Eq(layoutBounds.value.minX, r.x)
        /\ \E r \in LayoutRectangles : Eq(layoutBounds.value.maxX, Add(r.x, r.width))
        /\ \E r \in LayoutRectangles : Eq(layoutBounds.value.minZ, r.z)
        /\ \E r \in LayoutRectangles : Eq(layoutBounds.value.maxZ, Add(r.z, r.depth_z))
        /\ \A b \in LayoutBuildings : Le(b.height, layoutBounds.value.maxHeight)
        /\ \/ LayoutBuildings = {} /\ Eq(layoutBounds.value.maxHeight, Zero)
           \/ \E b \in LayoutBuildings : Eq(layoutBounds.value.maxHeight, b.height)
        /\ IsFinite(layoutBounds.value.minX) /\ IsFinite(layoutBounds.value.maxX)
        /\ IsFinite(layoutBounds.value.minZ) /\ IsFinite(layoutBounds.value.maxZ)
        /\ IsFinite(layoutBounds.value.maxHeight)

\* the bounds of a layout with buildings of two heights and a sub-district
C20_Witness ==
    /\ layoutBounds.called
    /\ layout.type = "directory"
    /\ Len(layout.children) > 0
    /\ \E a, b \in LayoutBuildings :
          Lt(a.height, b.height) /\ Eq(layoutBounds.value.maxHeight, b.height)
    /\ Eq(layoutBounds.value.maxX, Rat(80, 1))

----------------------------------------------------------------------------
(* Scenarios *)

\* the weights of the children of the root of the tree
ChildWeights == [i \in 1..Len(tree.children) |-> calculateNodeSize(tree.children[i])]

\* width / depth_z of a building is between 1/2 and 2
NearSquare(b) == Le(b.width, Mul(Two, b.depth_z)) /\ Le(b.depth_z, Mul(Two, b.width))

\* C21: a directory whose only children are 4 files of weight 100 each, laid
\* out in 80 x 80, has exactly 4 buildings, all of the same width and the same
\* depth_z, each near-square
C21_FourEqualBuildings ==
    (pc = "laidOut" /\ rect = RootRect /\ ChildWeights = <<100, 100, 100, 100>>
        /\ \A i \in 1..4 : tree.children[i].type = "file")
    => /\ Len(layout.buildings) = 4
       /\ \A i, j \in 1..Len(layout.buildings) :
              /\ Eq(layout.buildings[i].width, layout.buildings[j].width)
              /\ Eq(layout.buildings[i].depth_z, layout.buildings[j].depth_z)
       /\ \A i \in 1..Len(layout.buildings) : NearSquare(layout.buildings[i])

\* C22: a root directory whose only child is a file of size 1024, laid out in
\* 80 x 80, has exactly one building, of footprint 79 x 79
C22_SingleFileFootprint ==
    (pc = "laidOut" /\ rect = RootRect /\ Len(tree.children) = 1
        /\ tree.children[1].type = "file" /\ tree.children[1].size = 1024)
    => /\ Len(layout.buildings) = 1
       /\ Eq(layout.buildings[1].width, Sub(rect[3], Mul(BUILDING_GAP, Two)))
       /\ Eq(layout.buildings[1].depth_z, Sub(rect[4], Mul(BUILDING_GAP, Two)))

\* a directory CityNode of size 100 and height 0 without children and buildings
EmptyDistrict(D) ==
    /\ D.type = "directory"
    /\ D.size = 100
    /\ Eq(D.height, Zero)
    /\ Len(D.children) = 0
    /\ Len(D.buildings) = 0

\* C23: a directory with no children is laid out as a directory CityNode of
\* size 100 and height 0 with no children and no buildings, in exactly the
\* rectangle that was given; so is every empty directory further down
C23_EmptyDirectory ==
    pc = "laidOut" =>
        /\ (tree.type = "directory" /\ Len(tree.children) = 0) =>
               /\ EmptyDistrict(layout)
               /\ <<layout.x, layout.z, layout.width, layout.depth_z>> = rect
        /\ \A k \in 1..Len(flattenDistricts(layout)) :
               Len(NodeAt(tree, flattenDistricts(layout)[k].path).children) = 0
               => EmptyDistrict(flattenDistricts(layout)[k])

C23_Witness ==
    /\ pc = "laidOut"
    /\ tree.type = "directory"
    /\ Len(tree.children) = 0
    /\ EmptyDistrict(layout)
    /\ ~Eq(rect[3], rect[4])
    /\ <<layout.x, layout.z, layout.width, layout.depth_z>> = rect

----------------------------------------------------------------------------
(* Base cases of squarify *)

\* C24: squarify of exactly one item returns exactly one entry, the item in
\* the rectangle (x, z, width, depth) unchanged, whatever the weight of the item
C24_SingleItem ==
    (pc = "squarified" /\ Len(items) = 1) =>
        /\ Len(cells) = 1
        /\ cells[1].node = items[1].node
        /\ cells[1].size = items[1].size
        /\ <<cells[1].x, cells[1].z, cells[1].w, cells[1].d>> = rect

C24_Witness ==
    /\ pc = "squarified"
    /\ Len(items) = 1
    /\ items[1].size = 0
    /\ Len(cells) = 1
    /\ <<cells[1].x, cells[1].z, cells[1].w, cells[1].d>> = rect

\* C29: squarify of items whose weights add up to zero returns the empty
\* list, whatever the number of items
C29_ZeroTotal ==
    (pc = "squarified" /\ SumSizes(items) = 0) => cells = <<>>

----------------------------------------------------------------------------
(* Termination *)

\* the number of levels below a node
RECURSIVE TreeDepth(_)
RECURSIVE DeepestOf(_, _)
TreeDepth(n) == IF Len(n.children) = 0 THEN 0 ELSE 1 + DeepestOf(n.children, 1)

DeepestOf(children, k) ==
    IF k > Len(children) THEN 0
    ELSE IF TreeDepth(children[k]) > DeepestOf(children, k + 1)
    THEN TreeDepth(children[k])
    ELSE DeepestOf(children, k + 1)

\* a loop of squarify has made no more iterations than it was given items,
\* and every pending call is for a node of the tree at its own depth: the
\* root or a sub-directory
WalkBounded ==
    pc = "walk" =>
        /\ walk.iterations <= walk.given
        /\ walk.iterations + Len(walk.remaining) <= walk.given
        /\ \A k \in 1..Len(walk.stack) :
              /\ walk.stack[k].nodeDepth = Len(walk.stack[k].path)
              /\ walk.stack[k].nodeDepth <= TreeDepth(tree)
              /\ walk.stack[k].path # <<>>
                     => NodeAt(tree, walk.stack[k].path).type = "directory"

\* an iteration of the while loop takes at least one item out of remaining
RowRemovesItem == RowStep => Len(walk'.remaining) < Len(walk.remaining)

Terminated == pc = "walk" /\ walk.phase = "idle" /\ walk.stack = <<>>

\* C25: generateCityLayout terminates: every iteration of the row loop of
\* squarify removes at least one item, a loop over N items makes at most N
\* iterations, the recursion enters sub-directories only, never deeper than
\* the tree, and in the end no call is pending
C25_Terminates == []WalkBounded /\ [][RowRemovesItem]_vars /\ <>Terminated

C25_Witness ==
    /\ Terminated
    /\ TreeDepth(tree) >= 2
    /\ walk.calls >= 3
    /\ walk.longest >= 2

----------------------------------------------------------------------------
(* Heights of a kilobyte and of a megabyte *)

\* Log10 is below Math.log10 by less than 10^-15, so the height before the
\* clamp is below the one of the code by less than this
LogSlack == Rat(1, 1000000)

\* lo <= h <= hi for the height the code computes, h being the model's
HeightWithin(h, lo, hi) == Le(Sub(Rat(lo, 1), LogSlack), h) /\ Le(h, Rat(hi, 1))

\* C26: before the footprint scale, the height of a file of 1024 bytes is
\* between 8 and 10 and the height of a file of 1048576 bytes between 27 and 29
C26_KilobyteAndMegabyteHeights ==
    pc = "heightDone" =>
        \A i \in 1..2 :
            /\ Eq(bytes[i], Kilobyte) => HeightWithin(heights[i].base, 8, 10)
            /\ Eq(bytes[i], Megabyte) => HeightWithin(heights[i].base, 27, 29)

----------------------------------------------------------------------------
(* Memoization of the layout in CityScene *)

\* generateCityLayout(data, 0, 0, 80, 80) for each content of a tree object
SceneLayouts ==
    [t \in SceneTrees |-> generateCityLayout(t, RootRect[1], RootRect[2], RootRect[3],
                                             RootRect[4], 0)]

\* the layout in use is the layout of the tree object of the last render
LayoutIsCurrent ==
    (pc = "scene" /\ scene.mounted) =>
        /\ scene.memo.set
        /\ scene.memo.deps = scene.data.ref
        /\ LayoutInUse = SceneLayouts[scene.data.tree]

\* generateCityLayout ran once for each tree object handed over
ComputedOncePerTree == pc = "scene" => scene.calls = scene.refs

\* generateCityLayout runs only in a render with a tree object that is not
\* the one of the render before (or without a render before), and once
ComputedOnlyOnReplacement ==
    (pc = "scene" /\ scene'.calls # scene.calls)
        => (scene'.calls = scene.calls + 1
            /\ (~scene.mounted \/ scene'.data.ref # scene.data.ref))

\* an event handler, and a render with the tree object of the render before
\* whatever state updates it applies, leave the layout object in place and
\* do not invoke generateCityLayout
ReusedOtherwise ==
    (pc = "scene" /\ scene.mounted /\ scene'.data.ref = scene.data.ref)
        => (scene'.memo = scene.memo /\ scene'.calls = scene.calls)

\* C27: over any sequence of events, renders and tree replacements, the
\* layout in use is the layout of the current tree, generateCityLayout is
\* invoked once for each tree object and only in the render that receives
\* it, and a render caused by hover, pointer lock or fly mode updates reuses
\* the layout of the render before
C27_LayoutFollowsTree ==
    /\ [](LayoutIsCurrent /\ ComputedOncePerTree)
    /\ [][ComputedOnlyOnReplacement /\ ReusedOtherwise]_vars

\* after the replacement of the tree and a pointer lock, a hover on a
\* building of the new layout and a road hover shared one render, which
\* reused the layout and left both the building and the road hovered
C27_Witness ==
    /\ pc = "scene"
    /\ scene.mounted
    /\ scene.data.ref = 2
    /\ scene.memo.deps = 2
    /\ scene.calls = 2
    /\ ~scene.computed
    /\ scene.hoveredNode.set
    /\ scene.hoveredNode.of = 2
    /\ scene.hoveredRoad
    /\ scene.isLocked

----------------------------------------------------------------------------
(* The acceptance test of the row loop against the rule that gives each row *)
(* its own thickness *)

\* the rule of reference: the row with the candidate, of thickness
\* (newRowSize / remainingSize) * mainDim, is not worse than the row without
\* it, of thickness (rowSize / remainingSize) * mainDim
ReferenceAccepts(remaining, n, rowSize, remainingSize, mainDim, secondaryDim) ==
    Le(worstAspectRatio(SubSeq(remaining, 1, n + 1),
                        RowDim(rowSize + remaining[n + 1].size, remainingSize, mainDim),
                        secondaryDim, rowSize + remaining[n + 1].size,
                        remainingSize, mainDim),
       worstAspectRatio(SubSeq(remaining, 1, n),
                        RowDim(rowSize, remainingSize, mainDim),
                        secondaryDim, rowSize, remainingSize, mainDim))

\* the candidates the row loop decides on when it takes taken items of
\* remaining: the second item up to the first one it refuses
DecidedOn(remaining, taken) ==
    {n \in 1..(Len(remaining) - 1) : n <= taken}

\* the two rules agree on every decision of every iteration of the while loop
RECURSIVE DecisionsAgree(_, _, _)
DecisionsAgree(remaining, mainDim, secondaryDim) ==
    IF Len(remaining) = 0 THEN TRUE
    ELSE LET taken == GrowRow(remaining, 0, 0, SumSizes(remaining), mainDim, secondaryDim)
         IN  /\ \A n \in DecidedOn(remaining, taken) :
                    AcceptsCandidate(remaining, n, SumSizes(SubSeq(remaining, 1, n)),
                                     SumSizes(remaining), mainDim, secondaryDim)
                    <=> ReferenceAccepts(remaining, n, SumSizes(SubSeq(remaining, 1, n)),
                                         SumSizes(remaining), mainDim, secondaryDim)
             /\ DecisionsAgree(SubSeq(remaining, taken + 1, Len(remaining)),
                               mainDim, secondaryDim)

\* C28: in every call of squarify, each decision of the row loop to accept
\* or refuse a candidate is the decision of the rule of reference, which
\* evaluates the row with the candidate and the row without it each with
\* its own thickness
C28_AcceptanceMatchesReference ==
    pc = "squarified" =>
        IF Le(rect[4], rect[3])
        THEN DecisionsAgree(items, rect[3], rect[4])
        ELSE DecisionsAgree(items, rect[4], rect[3])

----------------------------------------------------------------------------
(* The dependency cache under concurrent requests *)

\* the cache is null with the timestamp 0, or the graph of a scan that
\* resolved with the Date.now() its request started with
CachePaired ==
    pc = "server" =>
        IF server.dependencyCache = NoGraph
        THEN server.dependencyCacheTime = 0
        ELSE /\ server.requests[server.dependencyCache].state = "scanned"
             /\ server.dependencyCacheTime = server.requests[server.dependencyCache].now

\* a response from the cache carries a graph, and less than CACHE_TTL lies
\* between the start of the request that scanned it and the start of the
\* request it is served to
ServedFresh ==
    pc = "server" =>
        \A r \in Requests :
            server.requests[r].state = "cached" =>
                /\ server.requests[r].body # NoGraph
                /\ server.requests[server.requests[r].body].state = "scanned"
                /\ server.requests[r].now - server.requests[server.requests[r].body].now
                      < CACHE_TTL

\* the cache and the timestamp change in one step, that of a scan resolving
UpdatedTogether ==
    (pc = "server" /\ (server'.dependencyCache # server.dependencyCache
                        \/ server'.dependencyCacheTime # server.dependencyCacheTime))
        => \E r \in Requests :
              /\ server.requests[r].state = "scanning"
              /\ server'.requests[r].state = "scanned"
              /\ server'.dependencyCache = r
              /\ server'.dependencyCacheTime = server.requests[r].now

\* a scan that fails changes neither
FailureKeepsCache ==
    (pc = "server" /\ \E r \in Requests : /\ server.requests[r].state = "scanning"
                                           /\ server'.requests[r].state = "failed")
        => /\ server'.dependencyCache = server.dependencyCache
           /\ server'.dependencyCacheTime = server.dependencyCacheTime

\* C30: under any interleaving of requests for /api/dependencies the cache
\* and its timestamp are updated together, a cached graph is served only
\* while less than CACHE_TTL has passed since the start of the request whose
\* scan produced it, and a failed scan leaves both unchanged
C30_CacheConsistent ==
    /\ [](CachePaired /\ ServedFresh)
    /\ [][UpdatedTogether /\ FailureKeepsCache]_vars

\* the scan of request 1 outlasts that of request 2 and overwrites it,
\* request 3 is served the graph of request 1, the scan of request 4 fails
C30_Witness ==
    /\ pc = "server"
    /\ server.requests[1].state = "scanned"
    /\ server.requests[2].state = "scanned"
    /\ server.requests[2].now > server.requests[1].now
    /\ server.dependencyCache = 1
    /\ server.requests[3].state = "cached"
    /\ server.requests[3].body = 1
    /\ server.requests[3].now > server.requests[1].now
    /\ server.requests[4].state = "failed"

====
